---- MODULE Spec2Model ----
(***************************************************************************)
(* The file-backed artifact store of pkg/ai/workspace.go: the Workspace    *)
(* with its in-memory Context, and the files of the .AIWorkspace           *)
(* directory (context.json, session.json, sessions/, roles/,               *)
(* preferences/).  Every public operation of the Workspace is one action;  *)
(* the operations are written as operators on a record of the whole        *)
(* store, so that an operation that calls another one (StartSession calls  *)
(* EndSession) is the composition the code performs.                       *)
(*                                                                         *)
(* The store is used by one process, every filesystem call succeeds unless *)
(* the file it names is absent, and Init is the first operation called on  *)
(* a constructed Workspace.  Every reading of the clock is later than the  *)
(* one before it, and uuid.New() never repeats an identifier: identifiers  *)
(* are numbered in the order they are handed out.  The log is kept as the  *)
(* lines the most recent call appended.                                    *)
(*                                                                         *)
(* Spec is that store.  ChatSpec is the same store with fewer inputs and   *)
(* room for two interactions in a session.  RebuildSpec has the artifact   *)
(* files changed by hand between Init and RefreshIndexes, files that       *)
(* cannot be read or decoded included.  FaultSpec has SavePreference,      *)
(* EndSession and ResumeArchivedSession fail in one of their filesystem    *)
(* calls, ArtifactSpec the saves and deletes of roles and preferences,    *)
(* MoveSpec every step of the moves of a session between session.json and  *)
(* sessions/.  SessionSpec is the session operations with the bounds of    *)
(* ChatSpec and a second role and a preference, RunSpec successive runs    *)
(* of the program on one directory, TwoSpec two processes on it.           *)
(* CodecSpec is the response parser of pkg/ai/types.go applied to a text.  *)
(* ClientSpec is the chat client, GeminiAIClient and the Model of pkg/ui,  *)
(* on the store; ClientLiveSpec is the client with the commands it starts  *)
(* returning and their messages delivered; AIClientSpec is the two methods *)
(* of GeminiAIClient called in any order.                                  *)
(***************************************************************************)
EXTENDS Integers, Sequences, FiniteSets, TLC

VARIABLES
    Context,         \* Workspace.Context, the in-memory context
    contextFile,     \* context.json: << >> when absent, else <<Context>>
    sessionFile,     \* session.json: << >> when absent, else <<session as serialized>>
    sessionsDir,     \* sessions/<id>.json: file id -> session as serialized
    rolesDir,        \* roles/<name>.json: name -> Role
    preferencesDir,  \* preferences/<id>.json: id -> Preference
    logged,          \* the lines the most recent operation appended to the log
    now,             \* the clock read by time.Now()
    uuids,           \* how many identifiers uuid.New() has handed out
    damaged,         \* the files that exist and cannot be read or decoded, by
                     \* directory: file -> "unreadable" or "undecodable"
    inited,          \* Init has returned success on this Workspace
    last,            \* the most recent call: operation, arguments, result
    archivedChat,    \* history: for each archived session, its chat log when it
                     \* was archived
    Model,           \* the ui.Model of the chat client and its GeminiAIClient
    requests,        \* the commands sendToAI has started, in order: the message
                     \* sent, how far the command is, the AIResponseMsg it returned
    other            \* a second process on the same directory: the Context of
                     \* its Workspace, whether its Init has returned success,
                     \* whether the most recent call was its call, and the
                     \* sessions its StartSession has returned

vars == <<Context, contextFile, sessionFile, sessionsDir, rolesDir,
          preferencesDir, damaged, logged, now, uuids, inited, last, archivedChat,
          Model, requests, other>>

----------------------------------------------------------------------------
(* Bounds of the model *)

MaxUUID == 3
MaxTime == 2

\* The bounds of the specification of the chat log, which needs a session with
\* two interactions.
MaxChatUUID == 4
MaxChatTime == 3

(* Inputs *)

Labels == {"work", "play"}
RoleNames == {"documenter", "reviewer"}
DesiredRoleNames == {"", "reviewer"}
PreferenceIDs == {"p1"}
ProjectNames == {"nani"}
ExistingPaths == {"main.go"}
SourcePaths == ExistingPaths \cup {"gone.go"}
Prompts == {"hello"}
Replies == {"hi"}

SevenDays == 7 * 24
OneSecond == 1

----------------------------------------------------------------------------
(* Maps (Go maps, directories) as functions *)

EmptyMap == [k \in {} |-> k]

Put(f, k, v) == [x \in (DOMAIN f) \cup {k} |-> IF x = k THEN v ELSE f[x]]

Delete(f, k) == [x \in (DOMAIN f) \ {k} |-> f[x]]

----------------------------------------------------------------------------
(* Types of workspace.go *)

ZeroRole == [Name |-> "", Label |-> "", Persona |-> "", Description |-> ""]

DefaultSystemPrompt == "You are a general-purpose AI assistant."

DocumenterRole ==
    [Name |-> "documenter", Label |-> "Code Documenter",
     Persona |-> "meticulous technical writer",
     Description |-> "Generates detailed documentation"]

ZeroContext ==
    [Workspace |-> 0,
     Settings |-> [DefaultLanguage |-> "", DefaultRole |-> "", SystemPrompt |-> ""],
     Project |-> "",
     Indexes |-> [ArchivedSessions |-> EmptyMap,
                  RolesIndex |-> EmptyMap,
                  PreferencesIndex |-> EmptyMap]]

\* Session.MarshalJSON: the Role field is written as the role's name only.
MarshalSession(s) == [s EXCEPT !.Role = s.Role.Name]

\* Session.UnmarshalJSON: only Role.Name is populated.
UnmarshalSession(d) == [d EXCEPT !.Role = [ZeroRole EXCEPT !.Name = d.Role]]

SessionSummary(s) ==
    [ID |-> s.ID, Label |-> s.Label, RoleName |-> s.Role.Name,
     CreatedAt |-> s.Metadata.CreatedAt, LastUpdated |-> s.Metadata.LastUpdated]

RoleSummary(r) == [Name |-> r.Name, Label |-> r.Label, Description |-> r.Description]

----------------------------------------------------------------------------
(* The store as one record, and the internal helpers *)

Store ==
    [Context |-> Context, contextFile |-> contextFile, sessionFile |-> sessionFile,
     sessions |-> sessionsDir, roles |-> rolesDir, preferences |-> preferencesDir,
     damaged |-> damaged, log |-> logged, now |-> now, uuids |-> uuids]

Ok(w) == [w |-> w, err |-> FALSE, ret |-> << >>]

Fail(w) == [w |-> w, err |-> TRUE, ret |-> << >>]

logAction(w, action) == [w EXCEPT !.log = Append(@, action)]

\* No file is damaged.  The maps of the store hold the files that can be
\* decoded; a damaged file exists on disk and is in none of them.
NoDamage ==
    [sessions |-> EmptyMap, roles |-> EmptyMap, preferences |-> EmptyMap,
     files |-> EmptyMap]

saveContext(w) ==
    [w EXCEPT !.contextFile = <<w.Context>>,
              !.damaged.files = Delete(@, "context.json")]

saveSession(w, session) ==
    [w EXCEPT !.sessionFile = <<MarshalSession(session)>>,
              !.damaged.files = Delete(@, "session.json")]

\* os.Stat of session.json finds a file.
SessionFileExists(w) ==
    w.sessionFile # << >> \/ "session.json" \in DOMAIN w.damaged.files

loadRole(w, name) ==
    IF name \in DOMAIN w.roles
    THEN [err |-> FALSE, role |-> w.roles[name]]
    ELSE [err |-> TRUE, role |-> ZeroRole]

loadSession_PartialRole(w) ==
    IF w.sessionFile = << >>
    THEN [err |-> "no active session found", session |-> << >>]
    ELSE [err |-> "", session |-> <<UnmarshalSession(w.sessionFile[1])>>]

\* err is "" on success, "no active session found" when session.json is
\* absent, "read" when it cannot be read or decoded, "role" when the session's
\* role cannot be loaded.
loadSession(w) ==
    IF w.sessionFile = << >>
    THEN [err |-> IF SessionFileExists(w) THEN "read" ELSE "no active session found",
          session |-> << >>]
    ELSE LET session == UnmarshalSession(w.sessionFile[1])
             r == loadRole(w, session.Role.Name)
         IN IF r.err
            THEN [err |-> "role", session |-> << >>]
            ELSE [err |-> "", session |-> <<[session EXCEPT !.Role = r.role]>>]

----------------------------------------------------------------------------
(* Index rebuilding *)

SnippetLimit == 100

ContentSnippet(content) ==
    IF Len(content) > SnippetLimit
    THEN SubSeq(content, 1, SnippetLimit) \o <<".", ".", ".">>
    ELSE content

PreferenceSummary(p) ==
    [ID |-> p.ID, Timestamp |-> p.Timestamp, ContentSnippet |-> ContentSnippet(p.Content)]

\* The summary rebuildIndexes decodes from an archived session file.
ArchivedSummary(d) ==
    [ID |-> d.ID, Label |-> d.Label, RoleName |-> d.Role,
     CreatedAt |-> d.Metadata.CreatedAt, LastUpdated |-> d.Metadata.LastUpdated]

\* The three maps as rebuildIndexes fills them from the files that decode, each
\* entry keyed by the identifier or name found inside the file.
buildIndexes(w) ==
    LET ids == {w.sessions[f].ID : f \in DOMAIN w.sessions}
        names == {w.roles[f].Name : f \in DOMAIN w.roles}
        prefs == {w.preferences[f].ID : f \in DOMAIN w.preferences}
    IN [ArchivedSessions |->
            [i \in ids |-> ArchivedSummary(
                w.sessions[CHOOSE f \in DOMAIN w.sessions : w.sessions[f].ID = i])],
        RolesIndex |->
            [n \in names |-> RoleSummary(
                w.roles[CHOOSE f \in DOMAIN w.roles : w.roles[f].Name = n])],
        PreferencesIndex |->
            [i \in prefs |-> PreferenceSummary(
                w.preferences[CHOOSE f \in DOMAIN w.preferences :
                                  w.preferences[f].ID = i])]]

WarnReadSession == "Warning: Could not read archived session file"
WarnParseSession == "Warning: Could not parse archived session summary"
WarnReadRole == "Warning: Could not read role file"
WarnParseRole == "Warning: Could not parse role"
WarnReadPreference == "Warning: Could not read preference file"
WarnParsePreference == "Warning: Could not parse preference"

\* How many files of a directory are damaged in the given way.
Count(d, kind) == Cardinality({f \in DOMAIN d : d[f] = kind})

\* The warnings of one directory: one line for each file that cannot be read
\* and one for each file that cannot be decoded.  The file's path, which the
\* line carries in the code, is left out, and the unreadable files come first.
warnings(d, read, parse) ==
    [i \in 1..Count(d, "unreadable") |-> read]
        \o [i \in 1..Count(d, "undecodable") |-> parse]

rebuildIndexes_AbortsOnDamage(w) ==
    IF w.damaged.sessions # EmptyMap \/ w.damaged.roles # EmptyMap
           \/ w.damaged.preferences # EmptyMap
    THEN Fail([w EXCEPT !.Context.Indexes = ZeroContext.Indexes])
    ELSE Ok(saveContext([w EXCEPT !.Context.Indexes = buildIndexes(w)]))

rebuildIndexes_StampsNow(w) ==
    LET t == w.now + 1
        built == buildIndexes(w)
        indexes == [built EXCEPT !.PreferencesIndex =
                       [i \in DOMAIN @ |-> [@[i] EXCEPT !.Timestamp = t]]]
    IN Ok(saveContext([w EXCEPT !.Context.Indexes = indexes, !.now = t]))

\* The three maps are emptied and refilled from the files, a file that cannot
\* be read or decoded is skipped with a warning in the log; then the context
\* is saved.
rebuildIndexes(w) ==
    LET w1 == [w EXCEPT !.log =
                   @ \o warnings(w.damaged.sessions, WarnReadSession, WarnParseSession)
                     \o warnings(w.damaged.roles, WarnReadRole, WarnParseRole)
                     \o warnings(w.damaged.preferences, WarnReadPreference,
                                 WarnParsePreference)]
    IN Ok(saveContext([w1 EXCEPT !.Context.Indexes = buildIndexes(w)]))

RefreshIndexes(w) ==
    LET w1 == logAction(w, "Refreshing workspace indexes initiated.")
        r == rebuildIndexes(w1)
    IN IF r.err THEN Fail(r.w)
       ELSE Ok(logAction(r.w, "Workspace indexes refreshed successfully."))

----------------------------------------------------------------------------
(* Roles and preferences *)

saveRole(w, role) ==
    LET w1 == [w EXCEPT !.roles = Put(@, role.Name, role),
                        !.damaged.roles = Delete(@, role.Name)]
        w2 == [w1 EXCEPT !.Context.Indexes.RolesIndex = Put(@, role.Name, RoleSummary(role))]
        w3 == saveContext(w2)
    IN Ok(logAction(w3, "Saved role"))

DeleteRole(w, name) ==
    LET w1 == [w EXCEPT !.roles = Delete(@, name),
                        !.damaged.roles = Delete(@, name)]
        w2 == [w1 EXCEPT !.Context.Indexes.RolesIndex = Delete(@, name)]
        w3 == saveContext(w2)
    IN Ok(logAction(w3, "Deleted role"))

SavePreference(w, pref) ==
    LET w1 == [w EXCEPT !.preferences = Put(@, pref.ID, pref),
                        !.damaged.preferences = Delete(@, pref.ID)]
        w2 == [w1 EXCEPT !.Context.Indexes.PreferencesIndex =
                             Put(@, pref.ID, PreferenceSummary(pref))]
        w3 == saveContext(w2)
    IN Ok(logAction(w3, "Saved preference"))

DeletePreference_AbsentIsError(w, id) ==
    IF id \notin DOMAIN w.preferences
    THEN Fail(w)
    ELSE LET w1 == [w EXCEPT !.preferences = Delete(@, id)]
             w2 == [w1 EXCEPT !.Context.Indexes.PreferencesIndex = Delete(@, id)]
             w3 == saveContext(w2)
         IN Ok(logAction(w3, "Deleted preference"))

DeletePreference_NotPersisted(w, id) ==
    LET w1 == [w EXCEPT !.preferences = Delete(@, id),
                        !.damaged.preferences = Delete(@, id)]
        w2 == [w1 EXCEPT !.Context.Indexes.PreferencesIndex = Delete(@, id)]
    IN Ok(logAction(w2, "Deleted preference"))

DeletePreference(w, id) ==
    LET w1 == [w EXCEPT !.preferences = Delete(@, id),
                        !.damaged.preferences = Delete(@, id)]
        w2 == [w1 EXCEPT !.Context.Indexes.PreferencesIndex = Delete(@, id)]
        w3 == saveContext(w2)
    IN Ok(logAction(w3, "Deleted preference"))

----------------------------------------------------------------------------
(* Init *)

loadContext_Recreated(w) ==
    [w EXCEPT !.Context = [w.contextFile[1] EXCEPT !.Workspace = w.uuids + 1],
              !.uuids = @ + 1]

loadContext(w) == [w EXCEPT !.Context = w.contextFile[1]]

shouldRebuild_Always(newContextCreated) == TRUE

\* Init, "Only rebuild if a new context wasn't just created".
shouldRebuild(newContextCreated) == ~newContextCreated

WorkspaceInit(w, projectName) ==
    LET newContextCreated == w.contextFile = << >>
        context ==
            [Workspace |-> w.uuids + 1,
             Settings |-> [DefaultLanguage |-> "en", DefaultRole |-> "documenter",
                           SystemPrompt |-> DefaultSystemPrompt],
             Project |-> projectName,
             Indexes |-> [ArchivedSessions |-> EmptyMap, RolesIndex |-> EmptyMap,
                          PreferencesIndex |-> EmptyMap]]
        w1 == IF newContextCreated
              THEN [saveContext([w EXCEPT !.Context = context]) EXCEPT !.uuids = @ + 1]
              ELSE loadContext(w)
        w2 == IF w1.Context.Settings.SystemPrompt = ""
              THEN saveContext([w1 EXCEPT !.Context.Settings.SystemPrompt =
                                              DefaultSystemPrompt])
              ELSE w1
        w3 == IF shouldRebuild(newContextCreated) THEN rebuildIndexes(w2).w ELSE w2
        w4 == IF "documenter" \notin (DOMAIN w3.roles) \cup (DOMAIN w3.damaged.roles)
              THEN saveRole(w3, DocumenterRole).w
              ELSE w3
    IN IF "context.json" \in DOMAIN w.damaged.files
       THEN Fail(w)
       ELSE Ok(logAction(w4, "Initialized workspace"))

----------------------------------------------------------------------------
(* Sessions *)

writeArchive_DropsSources(w, session) ==
    [w EXCEPT !.sessions = Put(@, session.ID,
                               MarshalSession([session EXCEPT !.Sources = << >>])),
              !.damaged.sessions = Delete(@, session.ID)]

\* EndSession, "Save to sessions/<id>.json".
writeArchive(w, session) ==
    [w EXCEPT !.sessions = Put(@, session.ID, MarshalSession(session)),
              !.damaged.sessions = Delete(@, session.ID)]

removeSessionFile_Kept(w) == w

\* EndSession, "Remove session.json".
removeSessionFile(w) ==
    [w EXCEPT !.sessionFile = << >>, !.damaged.files = Delete(@, "session.json")]

indexArchivedSession_Skipped(w, session) == w

\* EndSession, "Add to archived sessions index".
indexArchivedSession(w, session) ==
    [w EXCEPT !.Context.Indexes.ArchivedSessions =
                  Put(@, session.ID, SessionSummary(session))]

\* EndSession once session.json is known to exist.
archiveActive(w) ==
    LET l == loadSession(w)
    IN IF l.err # ""
       THEN Fail(w)
       ELSE LET session == l.session[1]
                w1 == writeArchive(w, session)
                w2 == removeSessionFile(w1)
                w3 == indexArchivedSession(w2, session)
                w4 == saveContext(w3)
            IN Ok(logAction(w4, "Archived session"))

EndSession_NoSessionIsError(w) ==
    IF ~SessionFileExists(w) THEN Fail(w) ELSE archiveActive(w)

EndSession(w) ==
    IF ~SessionFileExists(w) THEN Ok(w) ELSE archiveActive(w)

FallbackWarning == "Warning: Desired role not found. Falling back to default role."

roleToUse_NoFallback(w, desiredRoleName) ==
    IF desiredRoleName # "" THEN desiredRoleName ELSE w.Context.Settings.DefaultRole

\* StartSession, "Determine which role to use".
roleToUse(w, desiredRoleName) ==
    IF desiredRoleName # "" /\ desiredRoleName \in DOMAIN w.Context.Indexes.RolesIndex
    THEN desiredRoleName
    ELSE w.Context.Settings.DefaultRole

StartSession(w, label, desiredRoleName) ==
    LET e == IF SessionFileExists(w) THEN EndSession(w) ELSE Ok(w)
    IN IF e.err
       THEN Fail(e.w)
       ELSE LET found == desiredRoleName \in DOMAIN e.w.Context.Indexes.RolesIndex
                w1 == IF desiredRoleName # "" /\ ~found
                      THEN logAction(e.w, FallbackWarning)
                      ELSE e.w
                r == loadRole(w1, roleToUse(e.w, desiredRoleName))
            IN IF r.err
               THEN Fail(w1)
               ELSE LET t == w1.now + 1
                        session ==
                            [ID |-> w1.uuids + 1,
                             Label |-> label,
                             Role |-> r.role,
                             Sources |-> << >>,
                             Chat |-> << >>,
                             Metadata |-> [CreatedAt |-> t, Priority |-> "medium",
                                           SessionDuration |-> "3600",
                                           LastUpdated |-> t,
                                           ArchiveAfter |-> t + SevenDays]]
                        w2 == [w1 EXCEPT !.now = t, !.uuids = @ + 1]
                        w3 == saveSession(w2, session)
                        w4 == logAction(w3, "Started session")
                    IN [w |-> w4, err |-> FALSE, ret |-> <<session>>]

GetActiveSession_AbsentIsError(w) ==
    LET l == loadSession(w)
    IN IF l.err # ""
       THEN Fail(w)
       ELSE [w |-> w, err |-> FALSE, ret |-> l.session]

\* ret is << >> for the nil session.
GetActiveSession(w) ==
    LET l == loadSession(w)
    IN IF l.err = "no active session found"
       THEN Ok(w)
       ELSE IF l.err # ""
            THEN Fail(w)
            ELSE [w |-> w, err |-> FALSE, ret |-> l.session]

GetSession_AlwaysStarts(w, defaultLabel, defaultRoleName) ==
    StartSession(w, defaultLabel, defaultRoleName)

GetSession(w, defaultLabel, defaultRoleName) ==
    LET a == GetActiveSession(w)
    IN IF a.err
       THEN Fail(w)
       ELSE IF a.ret = << >>
            THEN StartSession(w, defaultLabel, defaultRoleName)
            ELSE a

unindexArchivedSession_Skipped(w, id) == w

\* ResumeArchivedSession, "Remove from archived sessions index in Context".
unindexArchivedSession(w, id) ==
    [w EXCEPT !.Context.Indexes.ArchivedSessions = Delete(@, id)]

removeArchiveFile_Kept(w, sessionID) == w

\* ResumeArchivedSession, the removal of the original archived file.
removeArchiveFile(w, sessionID) ==
    [w EXCEPT !.sessions = Delete(@, sessionID),
              !.damaged.sessions = Delete(@, sessionID)]

attachRole_FreshSession(session, role) ==
    [session EXCEPT !.Role = role, !.Chat = << >>]

\* ResumeArchivedSession, "Assign the fully loaded role to the session".
attachRole(session, role) == [session EXCEPT !.Role = role]

ResumeArchivedSession(w, sessionID) ==
    LET e == EndSession(w)
    IN IF e.err
       THEN Fail(e.w)
       ELSE IF sessionID \notin DOMAIN e.w.sessions
            THEN Fail(e.w)
            ELSE LET session == UnmarshalSession(e.w.sessions[sessionID])
                     r == loadRole(e.w, session.Role.Name)
                 IN IF r.err
                    THEN Fail(e.w)
                    ELSE LET full == attachRole(session, r.role)
                             w1 == saveSession(e.w, full)
                             w2 == unindexArchivedSession(w1, full.ID)
                             w3 == saveContext(w2)
                             w4 == removeArchiveFile(w3, sessionID)
                             w5 == logAction(w4, "Resumed archived session")
                         IN [w |-> w5, err |-> FALSE, ret |-> <<full>>]

AddSource_NoStat(w, sourcePath) ==
    LET l == loadSession(w)
    IN IF l.err # ""
       THEN Fail(w)
       ELSE LET session == l.session[1]
            IN IF \E i \in 1..Len(session.Sources) : session.Sources[i] = sourcePath
               THEN Ok(w)
               ELSE LET t == w.now + 1
                        s1 == [session EXCEPT !.Sources = Append(@, sourcePath),
                                              !.Metadata.LastUpdated = t]
                        w1 == saveSession([w EXCEPT !.now = t], s1)
                    IN Ok(logAction(w1, "Added source"))

AddSource(w, sourcePath) ==
    LET l == loadSession(w)
    IN IF l.err # ""
       THEN Fail(w)
       ELSE IF sourcePath \notin ExistingPaths
            THEN Fail(w)
            ELSE LET session == l.session[1]
                 IN IF \E i \in 1..Len(session.Sources) : session.Sources[i] = sourcePath
                    THEN Ok(w)
                    ELSE LET t == w.now + 1
                             s1 == [session EXCEPT !.Sources = Append(@, sourcePath),
                                                   !.Metadata.LastUpdated = t]
                             w1 == saveSession([w EXCEPT !.now = t], s1)
                         IN Ok(logAction(w1, "Added source"))

appendChat_Replaces(session, chat) == [session EXCEPT !.Chat = <<chat>>]

\* AddInteraction, "session.Chat = append(session.Chat, chat)".
appendChat(session, chat) == [session EXCEPT !.Chat = Append(@, chat)]

AddInteraction_Recreated(w, userPrompt, aiResponse) ==
    LET l == loadSession(w)
    IN IF l.err # ""
       THEN Fail(w)
       ELSE LET session == l.session[1]
                t == w.now + 1
                chat == [ID |-> w.uuids + 1,
                         Message |-> [Content |-> userPrompt, Timestamp |-> t],
                         Response |-> [Content |-> aiResponse,
                                       Timestamp |-> t + OneSecond]]
                s1 == [appendChat(session, chat) EXCEPT !.Metadata.CreatedAt = t,
                                                        !.Metadata.LastUpdated = t]
                w1 == saveSession([w EXCEPT !.now = t, !.uuids = @ + 1], s1)
            IN Ok(logAction(w1, "Added interaction"))

AddInteraction(w, userPrompt, aiResponse) ==
    LET l == loadSession(w)
    IN IF l.err # ""
       THEN Fail(w)
       ELSE LET session == l.session[1]
                t == w.now + 1
                chat == [ID |-> w.uuids + 1,
                         Message |-> [Content |-> userPrompt, Timestamp |-> t],
                         Response |-> [Content |-> aiResponse,
                                       Timestamp |-> t + OneSecond]]
                s1 == [appendChat(session, chat) EXCEPT !.Metadata.LastUpdated = t]
                w1 == saveSession([w EXCEPT !.now = t, !.uuids = @ + 1], s1)
            IN Ok(logAction(w1, "Added interaction"))

SwitchRole_SavesUnchecked(w, roleName) ==
    LET l == loadSession(w)
    IN IF l.err # ""
       THEN Fail(w)
       ELSE LET r == loadRole(w, roleName)
                t == w.now + 1
                s1 == [l.session[1] EXCEPT !.Role = [ZeroRole EXCEPT !.Name = roleName],
                                           !.Metadata.LastUpdated = t]
                w1 == saveSession([w EXCEPT !.now = t], s1)
            IN IF r.err THEN Fail(w1) ELSE Ok(logAction(w1, "Switched session role"))

SwitchRole_CreatesRole(w, roleName) ==
    LET l == loadSession(w)
    IN IF l.err # ""
       THEN Fail(w)
       ELSE LET w0 == IF loadRole(w, roleName).err
                      THEN saveRole(w, [ZeroRole EXCEPT !.Name = roleName]).w
                      ELSE w
                t == w0.now + 1
                s1 == [l.session[1] EXCEPT !.Role = loadRole(w0, roleName).role,
                                           !.Metadata.LastUpdated = t]
                w1 == saveSession([w0 EXCEPT !.now = t], s1)
            IN Ok(logAction(w1, "Switched session role"))

SwitchRole(w, roleName) ==
    LET l == loadSession(w)
    IN IF l.err # ""
       THEN Fail(w)
       ELSE LET r == loadRole(w, roleName)
            IN IF r.err
               THEN Fail(w)
               ELSE LET t == w.now + 1
                        s1 == [l.session[1] EXCEPT !.Role = r.role,
                                                   !.Metadata.LastUpdated = t]
                        w1 == saveSession([w EXCEPT !.now = t], s1)
                    IN Ok(logAction(w1, "Switched session role"))

----------------------------------------------------------------------------
(* The state machine *)

RoleInputs ==
    {[Name |-> n, Label |-> "Custom", Persona |-> "custom persona",
      Description |-> "custom"] : n \in RoleNames}

ShortContent == <<"o", "k">>

LongContent == [i \in 1..(SnippetLimit + 1) |-> "x"]

PreferenceInputs ==
    {[ID |-> i, Content |-> c, Timestamp |-> 0] :
        i \in PreferenceIDs, c \in {ShortContent, LongContent}}

SessionIDs == 1..MaxUUID

\* No second process uses the directory.
NoOther == [Context |-> ZeroContext, inited |-> FALSE, called |-> FALSE, started |-> {}]

\* g.chat is nil.  A chat is named by the number of the call of StartSession
\* that created it.
NoChat == 0

\* No chat client has been constructed.
NoModel ==
    [program |-> "none", chat |-> NoChat, loading |-> FALSE, ready |-> FALSE,
     previewMode |-> FALSE, textarea |-> << >>, messages |-> << >>]

\* The store as an operation finds it: the log lines are those of this call.
Entry == [Store EXCEPT !.log = << >>]

\* NewWorkspace: the directories exist and are empty, the Context is the zero value.
Init ==
    /\ Context = ZeroContext
    /\ contextFile = << >>
    /\ sessionFile = << >>
    /\ sessionsDir = EmptyMap
    /\ rolesDir = EmptyMap
    /\ preferencesDir = EmptyMap
    /\ damaged = NoDamage
    /\ logged = << >>
    /\ now = 0
    /\ uuids = 0
    /\ inited = FALSE
    /\ last = [op |-> "NewWorkspace", args |-> << >>, err |-> FALSE, ret |-> << >>,
               fault |-> "none"]
    /\ archivedChat = EmptyMap
    /\ Model = NoModel
    /\ requests = << >>
    /\ other = NoOther

\* The call op(args) with outcome r = [w, err, ret] is made and returns;
\* fault names the filesystem call that failed in it, "none" when none did.
\* archivedChat records, for a file that appears in sessions/, the chat log
\* session.json held when the call was made.
Commits(op, args, r, fault) ==
    /\ last' = [op |-> op, args |-> args, err |-> r.err, ret |-> r.ret,
                fault |-> fault]
    /\ Context' = r.w.Context
    /\ contextFile' = r.w.contextFile
    /\ sessionFile' = r.w.sessionFile
    /\ sessionsDir' = r.w.sessions
    /\ rolesDir' = r.w.roles
    /\ preferencesDir' = r.w.preferences
    /\ damaged' = r.w.damaged
    /\ logged' = r.w.log
    /\ now' = r.w.now
    /\ uuids' = r.w.uuids
    /\ inited' = (inited \/ (op = "Init" /\ ~r.err))
    /\ archivedChat' = [id \in DOMAIN r.w.sessions |->
                            IF id \in DOMAIN sessionsDir
                            THEN archivedChat[id]
                            ELSE sessionFile[1].Chat]

\* A call of the store: the chat client is not involved.
Returns(op, args, r, fault) ==
    /\ Commits(op, args, r, fault)
    /\ UNCHANGED <<Model, requests, other>>

\* A call in which no filesystem call fails.  A call that would take the
\* clock or the identifiers past the model's bounds is not made.
Call(op, args, r) ==
    /\ r.w.now <= MaxTime
    /\ r.w.uuids <= MaxUUID
    /\ Returns(op, args, r, "none")

CallInit ==
    \E projectName \in ProjectNames :
        Call("Init", <<projectName>>, WorkspaceInit(Entry, projectName))

CallRefreshIndexes ==
    /\ inited
    /\ Call("RefreshIndexes", << >>, RefreshIndexes(Entry))

CallSaveRole ==
    /\ inited
    /\ \E role \in RoleInputs : Call("saveRole", <<role>>, saveRole(Entry, role))

CallDeleteRole ==
    /\ inited
    /\ \E name \in RoleNames : Call("DeleteRole", <<name>>, DeleteRole(Entry, name))

CallSavePreference ==
    /\ inited
    /\ \E pref \in PreferenceInputs :
           Call("SavePreference", <<pref>>, SavePreference(Entry, pref))

CallDeletePreference ==
    /\ inited
    /\ \E id \in PreferenceIDs :
           Call("DeletePreference", <<id>>, DeletePreference(Entry, id))

CallGetActiveSession ==
    /\ inited
    /\ Call("GetActiveSession", << >>, GetActiveSession(Entry))

CallGetSession ==
    /\ inited
    /\ \E label \in Labels, role \in DesiredRoleNames :
           Call("GetSession", <<label, role>>, GetSession(Entry, label, role))

CallStartSession ==
    /\ inited
    /\ \E label \in Labels, role \in DesiredRoleNames :
           Call("StartSession", <<label, role>>, StartSession(Entry, label, role))

CallEndSession ==
    /\ inited
    /\ Call("EndSession", << >>, EndSession(Entry))

CallResumeArchivedSession ==
    /\ inited
    /\ \E id \in SessionIDs :
           Call("ResumeArchivedSession", <<id>>, ResumeArchivedSession(Entry, id))

CallAddSource ==
    /\ inited
    /\ \E path \in SourcePaths : Call("AddSource", <<path>>, AddSource(Entry, path))

CallAddInteraction ==
    /\ inited
    /\ \E prompt \in Prompts, reply \in Replies :
           Call("AddInteraction", <<prompt, reply>>,
                AddInteraction(Entry, prompt, reply))

CallSwitchRole ==
    /\ inited
    /\ \E name \in RoleNames : Call("SwitchRole", <<name>>, SwitchRole(Entry, name))

Next ==
    \/ CallInit
    \/ CallRefreshIndexes
    \/ CallSaveRole
    \/ CallDeleteRole
    \/ CallSavePreference
    \/ CallDeletePreference
    \/ CallGetActiveSession
    \/ CallGetSession
    \/ CallStartSession
    \/ CallEndSession
    \/ CallResumeArchivedSession
    \/ CallAddSource
    \/ CallAddInteraction
    \/ CallSwitchRole

Spec == Init /\ [][Next]_vars

----------------------------------------------------------------------------
(* The chat log: one session label, no role or preference changes, and room
   for two interactions in a session *)

ChatCall(op, args, r) ==
    /\ r.w.now <= MaxChatTime
    /\ r.w.uuids <= MaxChatUUID
    /\ Returns(op, args, r, "none")

ChatInit ==
    \E projectName \in ProjectNames :
        ChatCall("Init", <<projectName>>, WorkspaceInit(Entry, projectName))

ChatStartSession ==
    /\ inited
    /\ ChatCall("StartSession", <<"work", "">>, StartSession(Entry, "work", ""))

ChatAddInteraction ==
    /\ inited
    /\ \E prompt \in Prompts, reply \in Replies :
           ChatCall("AddInteraction", <<prompt, reply>>,
                    AddInteraction(Entry, prompt, reply))

ChatAddSource ==
    /\ inited
    /\ \E path \in SourcePaths :
           ChatCall("AddSource", <<path>>, AddSource(Entry, path))

ChatEndSession ==
    /\ inited
    /\ ChatCall("EndSession", << >>, EndSession(Entry))

ChatResumeArchivedSession ==
    /\ inited
    /\ \E id \in 1..MaxChatUUID :
           ChatCall("ResumeArchivedSession", <<id>>, ResumeArchivedSession(Entry, id))

ChatNext ==
    \/ ChatInit
    \/ ChatStartSession
    \/ ChatAddInteraction
    \/ ChatAddSource
    \/ ChatEndSession
    \/ ChatResumeArchivedSession

ChatSpec == Init /\ [][ChatNext]_vars

----------------------------------------------------------------------------
(* The session operations on a store that holds a second role and a
   preference, with the bounds of the chat log: a session can be archived by
   the start of a second one and the second one changed. *)

\* The preference and the role saved besides the default role.
TwoPreference == [ID |-> "p1", Content |-> ShortContent, Timestamp |-> 0]
TwoRole == [Name |-> "reviewer", Label |-> "Custom", Persona |-> "custom persona",
            Description |-> "custom"]

SessionSaveRole ==
    /\ inited
    /\ ChatCall("saveRole", <<TwoRole>>, saveRole(Entry, TwoRole))

SessionSavePreference ==
    /\ inited
    /\ ChatCall("SavePreference", <<TwoPreference>>,
                SavePreference(Entry, TwoPreference))

SessionSwitchRole ==
    /\ inited
    /\ \E name \in RoleNames :
           ChatCall("SwitchRole", <<name>>, SwitchRole(Entry, name))

SessionGetActiveSession ==
    /\ inited
    /\ ChatCall("GetActiveSession", << >>, GetActiveSession(Entry))

SessionNext ==
    \/ ChatNext
    \/ SessionSaveRole
    \/ SessionSavePreference
    \/ SessionSwitchRole
    \/ SessionGetActiveSession

SessionSpec == Init /\ [][SessionNext]_vars

----------------------------------------------------------------------------
(* Index rebuilding over files that were changed by hand: RefreshIndexes is
   for manual changes to artifact files made outside of the package's calls.
   Files are put into, damaged in and removed from the three artifact
   directories between the calls of Init and RefreshIndexes. *)

\* An archived session file copied into sessions/ by hand.
ForeignSession ==
    [ID |-> 0, Label |-> "work", Role |-> "documenter", Sources |-> << >>,
     Chat |-> << >>,
     Metadata |-> [CreatedAt |-> 0, Priority |-> "medium", SessionDuration |-> "3600",
                   LastUpdated |-> 0, ArchiveAfter |-> SevenDays]]

DamageKinds == {"unreadable", "undecodable"}

\* The artifact files are now as in w1; nothing else changes.
Edited(w1) ==
    /\ last' = [op |-> "edit", args |-> << >>, err |-> FALSE, ret |-> << >>,
                fault |-> "none"]
    /\ sessionsDir' = w1.sessions
    /\ rolesDir' = w1.roles
    /\ preferencesDir' = w1.preferences
    /\ damaged' = w1.damaged
    /\ archivedChat' = [id \in DOMAIN w1.sessions |-> w1.sessions[id].Chat]
    /\ UNCHANGED <<Context, contextFile, sessionFile, logged, now, uuids, inited,
                   Model, requests, other>>

PutRoleFile ==
    \E role \in RoleInputs :
        Edited([Entry EXCEPT !.roles = Put(@, role.Name, role),
                             !.damaged.roles = Delete(@, role.Name)])

PutPreferenceFile ==
    \E pref \in PreferenceInputs :
        Edited([Entry EXCEPT !.preferences = Put(@, pref.ID, pref),
                             !.damaged.preferences = Delete(@, pref.ID)])

PutSessionFile ==
    Edited([Entry EXCEPT !.sessions = Put(@, ForeignSession.ID, ForeignSession),
                         !.damaged.sessions = Delete(@, ForeignSession.ID)])

DamageFile ==
    \E kind \in DamageKinds :
        \/ \E name \in RoleNames :
               Edited([Entry EXCEPT !.roles = Delete(@, name),
                                    !.damaged.roles = Put(@, name, kind)])
        \/ \E id \in PreferenceIDs :
               Edited([Entry EXCEPT !.preferences = Delete(@, id),
                                    !.damaged.preferences = Put(@, id, kind)])
        \/ Edited([Entry EXCEPT !.sessions = Delete(@, ForeignSession.ID),
                                !.damaged.sessions = Put(@, ForeignSession.ID, kind)])

RemoveFile ==
    \/ \E name \in RoleNames :
           Edited([Entry EXCEPT !.roles = Delete(@, name),
                                !.damaged.roles = Delete(@, name)])
    \/ \E id \in PreferenceIDs :
           Edited([Entry EXCEPT !.preferences = Delete(@, id),
                                !.damaged.preferences = Delete(@, id)])
    \/ Edited([Entry EXCEPT !.sessions = Delete(@, ForeignSession.ID),
                            !.damaged.sessions = Delete(@, ForeignSession.ID)])

RebuildNext ==
    \/ CallInit
    \/ CallRefreshIndexes
    \/ PutRoleFile
    \/ PutPreferenceFile
    \/ PutSessionFile
    \/ DamageFile
    \/ RemoveFile

RebuildSpec == Init /\ [][RebuildNext]_vars

----------------------------------------------------------------------------
(* Operations in which a filesystem call fails: SavePreference and EndSession
   with a failure in one of their steps.  The operation returns the error of
   the failed step and does not perform the steps after it. *)

\* writeJSON fails in os.Create, with the file as it was, or in Encode, after
\* os.Create has truncated the file.
WriteFaults == {"create", "encode"}

\* writeJSON of preferences/<id>.json fails.
failedWritePreference(w, id, kind) ==
    IF kind = "create"
    THEN w
    ELSE [w EXCEPT !.preferences = Delete(@, id),
                   !.damaged.preferences = Put(@, id, "undecodable")]

\* writeJSON of sessions/<id>.json fails.
failedWriteArchive(w, id, kind) ==
    IF kind = "create"
    THEN w
    ELSE [w EXCEPT !.sessions = Delete(@, id),
                   !.damaged.sessions = Put(@, id, "undecodable")]

\* saveContext fails.
failedSaveContext(w, kind) ==
    IF kind = "create"
    THEN w
    ELSE [w EXCEPT !.contextFile = << >>,
                   !.damaged.files = Put(@, "context.json", "undecodable")]

\* SavePreference with a failure in the step named.
SavePreferenceFails(w, pref, step, kind) ==
    LET w1 == [w EXCEPT !.preferences = Put(@, pref.ID, pref),
                        !.damaged.preferences = Delete(@, pref.ID)]
        w2 == [w1 EXCEPT !.Context.Indexes.PreferencesIndex =
                             Put(@, pref.ID, PreferenceSummary(pref))]
    IN CASE step = "writeJSON" -> Fail(failedWritePreference(w, pref.ID, kind))
         [] step = "saveContext" -> Fail(failedSaveContext(w2, kind))
         [] step = "logAction" -> Fail(saveContext(w2))

\* writeJSON of roles/<name>.json fails.
failedWriteRole(w, name, kind) ==
    IF kind = "create"
    THEN w
    ELSE [w EXCEPT !.roles = Delete(@, name),
                   !.damaged.roles = Put(@, name, "undecodable")]

saveRoleFails_IndexesFirst(w, role, step, kind) ==
    LET w0 == [w EXCEPT !.Context.Indexes.RolesIndex =
                            Put(@, role.Name, RoleSummary(role))]
        w1 == [w0 EXCEPT !.roles = Put(@, role.Name, role),
                         !.damaged.roles = Delete(@, role.Name)]
    IN CASE step = "writeJSON" -> Fail(failedWriteRole(w0, role.Name, kind))
         [] step = "saveContext" -> Fail(failedSaveContext(w1, kind))
         [] step = "logAction" -> Fail(saveContext(w1))

\* saveRole with a failure in the step named.
saveRoleFails(w, role, step, kind) ==
    LET w1 == [w EXCEPT !.roles = Put(@, role.Name, role),
                        !.damaged.roles = Delete(@, role.Name)]
        w2 == [w1 EXCEPT !.Context.Indexes.RolesIndex =
                             Put(@, role.Name, RoleSummary(role))]
    IN CASE step = "writeJSON" -> Fail(failedWriteRole(w, role.Name, kind))
         [] step = "saveContext" -> Fail(failedSaveContext(w2, kind))
         [] step = "logAction" -> Fail(saveContext(w2))

\* DeleteRole with a failure in the step named; os.Remove fails for another
\* reason than the absence of the file.
DeleteRoleFails(w, name, step, kind) ==
    LET w1 == [w EXCEPT !.roles = Delete(@, name),
                        !.damaged.roles = Delete(@, name)]
        w2 == [w1 EXCEPT !.Context.Indexes.RolesIndex = Delete(@, name)]
    IN CASE step = "Remove" -> Fail(w)
         [] step = "saveContext" -> Fail(failedSaveContext(w2, kind))
         [] step = "logAction" -> Fail(saveContext(w2))

\* DeletePreference with a failure in the step named.
DeletePreferenceFails(w, id, step, kind) ==
    LET w1 == [w EXCEPT !.preferences = Delete(@, id),
                        !.damaged.preferences = Delete(@, id)]
        w2 == [w1 EXCEPT !.Context.Indexes.PreferencesIndex = Delete(@, id)]
    IN CASE step = "Remove" -> Fail(w)
         [] step = "saveContext" -> Fail(failedSaveContext(w2, kind))
         [] step = "logAction" -> Fail(saveContext(w2))

\* EndSession of a session that loads, with a failure in the step named.
EndSessionFails(w, step, kind) ==
    LET session == loadSession(w).session[1]
        w1 == writeArchive(w, session)
        w2 == removeSessionFile(w1)
        w3 == indexArchivedSession(w2, session)
    IN CASE step = "writeJSON" -> Fail(failedWriteArchive(w, session.ID, kind))
         [] step = "Remove" -> Fail(w1)
         [] step = "saveContext" -> Fail(failedSaveContext(w3, kind))

WarnRemoveArchive == "Warning: Failed to remove original archived session file"

failedRemoveArchive_Silent(w, sessionID) == w

\* ResumeArchivedSession, the removal of the original archived file fails:
\* the file stays and a warning is logged.
failedRemoveArchive(w, sessionID) == logAction(w, WarnRemoveArchive)

\* ResumeArchivedSession of an archived session that loads, with a failure
\* of os.Remove on the archive file.
ResumeArchivedSessionFails(w, sessionID) ==
    LET e == EndSession(w)
        session == UnmarshalSession(e.w.sessions[sessionID])
        full == attachRole(session, loadRole(e.w, session.Role.Name).role)
        w1 == saveSession(e.w, full)
        w2 == unindexArchivedSession(w1, full.ID)
        w3 == saveContext(w2)
        w4 == failedRemoveArchive(w3, sessionID)
        w5 == logAction(w4, "Resumed archived session")
    IN [w |-> w5, err |-> FALSE, ret |-> <<full>>]

\* The steps of a save and of a delete in which a filesystem call is made.
SaveSteps == {"writeJSON", "saveContext", "logAction"}
DeleteSteps == {"Remove", "saveContext", "logAction"}

FaultSavePreference ==
    /\ inited
    /\ \E pref \in PreferenceInputs, step \in SaveSteps, kind \in WriteFaults :
           Returns("SavePreference", <<pref>>,
                   SavePreferenceFails(Entry, pref, step, kind), step)

FaultDeletePreference ==
    /\ inited
    /\ \E id \in PreferenceIDs, step \in DeleteSteps, kind \in WriteFaults :
           Returns("DeletePreference", <<id>>,
                   DeletePreferenceFails(Entry, id, step, kind), step)

FaultSaveRole ==
    /\ inited
    /\ \E role \in RoleInputs, step \in SaveSteps, kind \in WriteFaults :
           Returns("saveRole", <<role>>, saveRoleFails(Entry, role, step, kind), step)

FaultDeleteRole ==
    /\ inited
    /\ \E name \in RoleNames, step \in DeleteSteps, kind \in WriteFaults :
           Returns("DeleteRole", <<name>>,
                   DeleteRoleFails(Entry, name, step, kind), step)

FaultEndSession ==
    /\ inited
    /\ loadSession(Entry).err = ""
    /\ \E step \in {"writeJSON", "Remove", "saveContext"}, kind \in WriteFaults :
           Returns("EndSession", << >>, EndSessionFails(Entry, step, kind), step)

\* os.Remove fails in a ResumeArchivedSession that has reached it.
FaultResumeArchivedSession ==
    /\ inited
    /\ \E id \in SessionIDs :
           /\ ~ResumeArchivedSession(Entry, id).err
           /\ Returns("ResumeArchivedSession", <<id>>,
                      ResumeArchivedSessionFails(Entry, id), "Remove")

FaultNext ==
    \/ CallInit
    \/ FaultResumeArchivedSession
    \/ CallSavePreference
    \/ CallDeletePreference
    \/ CallStartSession
    \/ CallEndSession
    \/ CallResumeArchivedSession
    \/ FaultSavePreference
    \/ FaultEndSession

FaultSpec == Init /\ [][FaultNext]_vars

\* saveSession fails.
failedSaveSession(w, kind) ==
    IF kind = "create"
    THEN w
    ELSE [w EXCEPT !.sessionFile = << >>,
                   !.damaged.files = Put(@, "session.json", "undecodable")]

ResumeArchivedSessionFailsAt_RemovesFirst(w, sessionID, step, kind) ==
    LET e == EndSession(w)
        session == UnmarshalSession(e.w.sessions[sessionID])
        full == attachRole(session, loadRole(e.w, session.Role.Name).role)
        w0 == removeArchiveFile(e.w, sessionID)
        w1 == saveSession(w0, full)
        w2 == unindexArchivedSession(w1, full.ID)
    IN CASE step = "saveSession" -> Fail(failedSaveSession(w0, kind))
         [] step = "saveContext" -> Fail(failedSaveContext(w2, kind))

\* ResumeArchivedSession of an archived session that loads, after its
\* EndSession, with a failure in the step named.
ResumeArchivedSessionFailsAt(w, sessionID, step, kind) ==
    LET e == EndSession(w)
        session == UnmarshalSession(e.w.sessions[sessionID])
        full == attachRole(session, loadRole(e.w, session.Role.Name).role)
        w1 == saveSession(e.w, full)
        w2 == unindexArchivedSession(w1, full.ID)
    IN CASE step = "saveSession" -> Fail(failedSaveSession(e.w, kind))
         [] step = "saveContext" -> Fail(failedSaveContext(w2, kind))

\* ResumeArchivedSession fails in the EndSession it calls first.
FaultEndSessionOfResume ==
    /\ inited
    /\ loadSession(Entry).err = ""
    /\ \E id \in SessionIDs, step \in {"writeJSON", "Remove", "saveContext"},
          kind \in WriteFaults :
           Returns("ResumeArchivedSession", <<id>>,
                   EndSessionFails(Entry, step, kind), step)

\* ResumeArchivedSession fails after the EndSession it calls first.
FaultResumeArchivedSessionAt ==
    /\ inited
    /\ \E id \in SessionIDs, step \in {"saveSession", "saveContext"},
          kind \in WriteFaults :
           /\ ~ResumeArchivedSession(Entry, id).err
           /\ Returns("ResumeArchivedSession", <<id>>,
                      ResumeArchivedSessionFailsAt(Entry, id, step, kind), step)

\* The moves of a session between session.json and sessions/, with and
\* without a failure in one of their steps.
MoveNext ==
    \/ CallInit
    \/ CallStartSession
    \/ CallEndSession
    \/ CallResumeArchivedSession
    \/ FaultEndSession
    \/ FaultEndSessionOfResume
    \/ FaultResumeArchivedSessionAt
    \/ FaultResumeArchivedSession

MoveSpec == Init /\ [][MoveNext]_vars

\* The saves and deletes of roles and preferences, with and without a
\* failure in one of their steps.
ArtifactNext ==
    \/ CallInit
    \/ CallSaveRole
    \/ CallDeleteRole
    \/ CallSavePreference
    \/ CallDeletePreference
    \/ FaultSaveRole
    \/ FaultDeleteRole
    \/ FaultSavePreference
    \/ FaultDeletePreference

ArtifactSpec == Init /\ [][ArtifactNext]_vars

----------------------------------------------------------------------------
(* Two processes on one workspace directory.  Each has constructed its own
   Workspace, with its own Context in memory; the files are shared, and
   nothing keeps a call of one process from running between two calls of
   the other.  A call is one step. *)

\* The sessions StartSession has returned to this process, given the call.
Started(op, r, started) ==
    IF op = "StartSession" /\ ~r.err THEN started \cup {r.ret[1].ID} ELSE started

\* The store as the second process has it: the files, and its own Context.
OtherEntry == [Entry EXCEPT !.Context = other.Context]

\* The bounds of a call in the model of two processes.
TwoCall(r) ==
    /\ r.w.now <= MaxChatTime
    /\ r.w.uuids <= MaxChatUUID

\* A call of the first process.
OwnReturns(op, args, r) ==
    /\ TwoCall(r)
    /\ Commits(op, args, r, "none")
    /\ other' = [other EXCEPT !.called = FALSE]
    /\ UNCHANGED <<Model, requests>>

OtherReturns_SharedMemory(op, args, r) ==
    /\ TwoCall(r)
    /\ Commits(op, args, r, "none")
    /\ other' = [Context |-> r.w.Context,
                 inited |-> other.inited \/ (op = "Init" /\ ~r.err),
                 called |-> TRUE,
                 started |-> Started(op, r, other.started)]
    /\ UNCHANGED <<Model, requests>>

\* A call of the second process: the files are as the call leaves them, the
\* Context it leaves is that of the second process, and the Context of the
\* first process is as it was.
OtherReturns(op, args, r) ==
    /\ TwoCall(r)
    /\ last' = [op |-> op, args |-> args, err |-> r.err, ret |-> r.ret,
                fault |-> "none"]
    /\ contextFile' = r.w.contextFile
    /\ sessionFile' = r.w.sessionFile
    /\ sessionsDir' = r.w.sessions
    /\ rolesDir' = r.w.roles
    /\ preferencesDir' = r.w.preferences
    /\ damaged' = r.w.damaged
    /\ logged' = r.w.log
    /\ now' = r.w.now
    /\ uuids' = r.w.uuids
    /\ archivedChat' = [id \in DOMAIN r.w.sessions |->
                            IF id \in DOMAIN sessionsDir
                            THEN archivedChat[id]
                            ELSE sessionFile[1].Chat]
    /\ other' = [Context |-> r.w.Context,
                 inited |-> other.inited \/ (op = "Init" /\ ~r.err),
                 called |-> TRUE,
                 started |-> Started(op, r, other.started)]
    /\ UNCHANGED <<Context, inited, Model, requests>>

OwnInit == OwnReturns("Init", <<"nani">>, WorkspaceInit(Entry, "nani"))

OwnSavePreference ==
    /\ inited
    /\ OwnReturns("SavePreference", <<TwoPreference>>,
                  SavePreference(Entry, TwoPreference))

OwnSaveRole ==
    /\ inited
    /\ OwnReturns("saveRole", <<TwoRole>>, saveRole(Entry, TwoRole))

OwnStartSession ==
    /\ inited
    /\ OwnReturns("StartSession", <<"work", "">>, StartSession(Entry, "work", ""))

OtherInit == OtherReturns("Init", <<"nani">>, WorkspaceInit(OtherEntry, "nani"))

OtherSavePreference ==
    /\ other.inited
    /\ OtherReturns("SavePreference", <<TwoPreference>>,
                    SavePreference(OtherEntry, TwoPreference))

OtherSaveRole ==
    /\ other.inited
    /\ OtherReturns("saveRole", <<TwoRole>>, saveRole(OtherEntry, TwoRole))

OtherStartSession ==
    /\ other.inited
    /\ OtherReturns("StartSession", <<"work", "">>,
                    StartSession(OtherEntry, "work", ""))

TwoNext ==
    \/ OwnInit
    \/ OwnSavePreference
    \/ OwnSaveRole
    \/ OwnStartSession
    \/ OtherInit
    \/ OtherSavePreference
    \/ OtherSaveRole
    \/ OtherStartSession

TwoSpec == Init /\ [][TwoNext]_vars

----------------------------------------------------------------------------
(* Successive runs of the program on one workspace directory.  A run
   constructs a Workspace with NewWorkspace, whose Context is the zero value,
   and calls Init with the project of its command line; the files are those
   the runs before it left. *)

RunProjects == {"nani", "fork"}

\* NewWorkspace on the directory of an earlier run.
Restarted ==
    /\ inited
    /\ Context' = ZeroContext
    /\ inited' = FALSE
    /\ logged' = << >>
    /\ last' = [op |-> "NewWorkspace", args |-> << >>, err |-> FALSE, ret |-> << >>,
                fault |-> "none"]
    /\ UNCHANGED <<contextFile, sessionFile, sessionsDir, rolesDir, preferencesDir,
                   damaged, now, uuids, archivedChat, Model, requests, other>>

RunInit ==
    \E projectName \in RunProjects :
        Call("Init", <<projectName>>, WorkspaceInit(Entry, projectName))

RunNext ==
    \/ Restarted
    \/ RunInit
    \/ CallSaveRole
    \/ CallDeleteRole
    \/ CallSavePreference
    \/ CallStartSession
    \/ CallEndSession

RunSpec == Init /\ [][RunNext]_vars

----------------------------------------------------------------------------
(* The response codec of pkg/ai/types.go.  A text is a sequence of tokens: a
   blank, a newline, a fence of three backquotes, a word, or a JSON object
   with the string members think, summary and content, themselves texts; a
   member that the object lacks is the empty text, as json.Unmarshal leaves
   it. *)

Tok(k, s) == [k |-> k, s |-> s, think |-> << >>, summary |-> << >>, content |-> << >>]

Blank == Tok("ws", " ")
Newline == Tok("nl", "\n")
\* The three backquotes of a markdown code fence.
Fence == Tok("fence", "fence")
Word(s) == Tok("text", s)

Obj(think, summary, content) ==
    [k |-> "obj", s |-> "", think |-> think, summary |-> summary, content |-> content]

IsSpace(t) == t.k \in {"ws", "nl"}

RECURSIVE TrimLeft(_)
TrimLeft(text) ==
    IF text # << >> /\ IsSpace(Head(text)) THEN TrimLeft(Tail(text)) ELSE text

RECURSIVE TrimRight(_)
TrimRight(text) ==
    IF text # << >> /\ IsSpace(text[Len(text)])
    THEN TrimRight(SubSeq(text, 1, Len(text) - 1))
    ELSE text

\* strings.TrimSpace
TrimSpace(text) == TrimRight(TrimLeft(text))

\* strings.HasPrefix(text, fence)
HasFencePrefix(text) == text # << >> /\ text[1].k = "fence"

\* strings.SplitN(text, "\n", 2): the text is cut at its first newline, and
\* is one piece when it has none.
SplitFirstLine(text) ==
    LET nls == {i \in 1..Len(text) : text[i].k = "nl"}
    IN IF nls = {}
       THEN <<text>>
       ELSE LET i == CHOOSE n \in nls : \A m \in nls : n <= m
            IN <<SubSeq(text, 1, i - 1), SubSeq(text, i + 1, Len(text))>>

\* strings.LastIndex(text, newline fence): the position of the last newline that a
\* fence follows, 0 when there is none (-1 in the code).
LastFenceIndex(text) ==
    LET at == {i \in 1..(Len(text) - 1) : text[i].k = "nl" /\ text[i + 1].k = "fence"}
    IN IF at = {} THEN 0 ELSE CHOOSE n \in at : \A m \in at : m <= n

stripFence_NeedsClosing(cleanedText) ==
    IF HasFencePrefix(cleanedText)
    THEN LET lines == SplitFirstLine(cleanedText)
         IN IF Len(lines) > 1 /\ LastFenceIndex(lines[2]) > 0
            THEN TrimSpace(SubSeq(lines[2], 1, LastFenceIndex(lines[2]) - 1))
            ELSE cleanedText
    ELSE cleanedText

\* "Remove markdown code fences if present".
stripFence(cleanedText) ==
    IF HasFencePrefix(cleanedText)
    THEN LET lines == SplitFirstLine(cleanedText)
         IN IF Len(lines) > 1
            THEN LET remaining == lines[2]
                     lastFenceIndex == LastFenceIndex(remaining)
                 IN IF lastFenceIndex > 0
                    THEN TrimSpace(SubSeq(remaining, 1, lastFenceIndex - 1))
                    ELSE TrimSpace(remaining)
            ELSE cleanedText
    ELSE cleanedText

\* json.Unmarshal into a Response succeeds on one JSON object and nothing else.
Decodes(text) == Len(text) = 1 /\ text[1].k = "obj"

Unmarshal_Trimmed(text) ==
    [Think |-> TrimSpace(text[1].think), Summary |-> TrimSpace(text[1].summary),
     Content |-> TrimSpace(text[1].content)]

Unmarshal(text) ==
    [Think |-> text[1].think, Summary |-> text[1].summary, Content |-> text[1].content]

NoThinkBlock == <<Word("No think block")>>
NoSummaryBlock == <<Word("No summary block")>>

defaultResponse_Trimmed(input) ==
    [Think |-> NoThinkBlock, Summary |-> NoSummaryBlock, Content |-> TrimSpace(input)]

defaultResponse(input) ==
    [Think |-> NoThinkBlock, Summary |-> NoSummaryBlock, Content |-> input]

validate_ContentFirst(aiResponse) ==
    IF TrimSpace(aiResponse.Content) = << >> THEN "ErrEmptyContent"
    ELSE IF TrimSpace(aiResponse.Summary) = << >> THEN "ErrEmptySummary"
    ELSE IF TrimSpace(aiResponse.Think) = << >> THEN "ErrEmptyThink"
    ELSE ""

\* parseAIResponse, "Validate fields": the error of the first member that is
\* empty after trimming, "" when none is.
validate(aiResponse) ==
    IF TrimSpace(aiResponse.Think) = << >> THEN "ErrEmptyThink"
    ELSE IF TrimSpace(aiResponse.Summary) = << >> THEN "ErrEmptySummary"
    ELSE IF TrimSpace(aiResponse.Content) = << >> THEN "ErrEmptyContent"
    ELSE ""

\* The result is the Response and the error, "" for nil.
parseAIResponse(responseText) ==
    IF TrimSpace(responseText) = << >>
    THEN [resp |-> defaultResponse(responseText), err |-> "ErrEmptyInput"]
    ELSE LET cleanedText == stripFence(TrimSpace(responseText))
         IN IF ~Decodes(cleanedText)
            THEN [resp |-> defaultResponse(responseText), err |-> "ErrInvalidJSON"]
            ELSE LET aiResponse == Unmarshal(cleanedText)
                     err == validate(aiResponse)
                 IN IF err # ""
                    THEN [resp |-> defaultResponse(responseText), err |-> err]
                    ELSE [resp |-> aiResponse, err |-> ""]

\* json.Marshal of a Response, by its struct tags: one object with the three
\* members and no white space around it.
Marshal(resp) == <<Obj(resp.Think, resp.Summary, resp.Content)>>

\* The longest text given to the parser, in tokens.
MaxLen == 5

\* The values of a member of the object: empty or lacking, blank, and a word
\* of its own with a blank beside it.
MemberValues(word) == {<< >>, <<Blank>>, word}

Objects ==
    {Obj(t, m, c) : t \in MemberValues(<<Blank, Word("t")>>),
                    m \in MemberValues(<<Word("s"), Blank>>),
                    c \in MemberValues(<<Blank, Word("c")>>)}

Body == Tok("body", "")

Shapes(len) ==
    UNION {[1..n -> {Blank, Newline, Fence, Word("json"), Body}] : n \in 0..len}

\* The texts given to the parser: every text of at most len tokens, with
\* the same object at every place where the text has one.
Inputs(len) ==
    {[i \in 1..Len(t) |-> IF t[i] = Body THEN o ELSE t[i]] :
        t \in Shapes(len), o \in Objects}

\* A text arrives from the provider.
CodecInit ==
    /\ \E text \in Inputs(MaxLen) :
           last = [op |-> "input", args |-> <<text>>, err |-> FALSE, ret |-> << >>,
                   fault |-> "none"]
    /\ Context = ZeroContext
    /\ contextFile = << >>
    /\ sessionFile = << >>
    /\ sessionsDir = EmptyMap
    /\ rolesDir = EmptyMap
    /\ preferencesDir = EmptyMap
    /\ damaged = NoDamage
    /\ logged = << >>
    /\ now = 0
    /\ uuids = 0
    /\ inited = FALSE
    /\ archivedChat = EmptyMap
    /\ Model = NoModel
    /\ requests = << >>
    /\ other = NoOther

\* The text that arrived, or the text that Marshal produced, is parsed: ret is
\* the Response and the error's name.
CallParseAIResponse ==
    /\ last.op \in {"input", "Marshal"}
    /\ LET text == IF last.op = "input" THEN last.args[1] ELSE last.ret[1]
           r == parseAIResponse(text)
       IN last' = [op |-> "parseAIResponse", args |-> <<text>>, err |-> r.err # "",
                   ret |-> <<r.resp, r.err>>, fault |-> "none"]
    /\ UNCHANGED <<Context, contextFile, sessionFile, sessionsDir, rolesDir,
                   preferencesDir, damaged, logged, now, uuids, inited, archivedChat,
                   Model, requests, other>>

\* The Response of a parse that succeeded is encoded.
CallMarshal ==
    /\ last.op = "parseAIResponse"
    /\ ~last.err
    /\ last' = [op |-> "Marshal", args |-> <<last.ret[1]>>, err |-> FALSE,
                ret |-> <<Marshal(last.ret[1])>>, fault |-> "none"]
    /\ UNCHANGED <<Context, contextFile, sessionFile, sessionsDir, rolesDir,
                   preferencesDir, damaged, logged, now, uuids, inited, archivedChat,
                   Model, requests, other>>

CodecNext ==
    \/ CallParseAIResponse
    \/ CallMarshal

CodecSpec == CodecInit /\ [][CodecNext]_vars

----------------------------------------------------------------------------
(* The chat client: GeminiAIClient of pkg/ai/types.go and the Model of
   pkg/ui.  ui.New starts the client's session; the Enter key hands the text
   of the textarea to a command that calls SendMessage and returns one
   AIResponseMsg, which the event loop passes to Update.  A text is a
   sequence of tokens, as for the codec.  The provider's answer to a call is
   an input: a reply with a text, a reply without content, an error, or the
   expiry of the context's deadline. *)

\* Response{}
ZeroResponse == [Think |-> << >>, Summary |-> << >>, Content |-> << >>]

respond_SavesAlways(w, message, save, p) ==
    IF p.err # ""
    THEN [w |-> w, resp |-> ZeroResponse, err |-> "failed to parse"]
    ELSE IF ~GetActiveSession(w).err
         THEN [w |-> AddInteraction(w, message, p.resp.Summary).w,
               resp |-> p.resp, err |-> ""]
         ELSE [w |-> w, resp |-> p.resp, err |-> ""]

\* SendMessage from the result p of parseAIResponse on: the Response of a
\* failed parse is the zero Response, and the error AddInteraction returns is
\* dropped.
respond(w, message, save, p) ==
    IF p.err # ""
    THEN [w |-> w, resp |-> ZeroResponse, err |-> "failed to parse"]
    ELSE IF ~GetActiveSession(w).err /\ save
         THEN [w |-> AddInteraction(w, message, p.resp.Summary).w,
               resp |-> p.resp, err |-> ""]
         ELSE [w |-> w, resp |-> p.resp, err |-> ""]

SendMessage_Unchecked(w, chat, message, save, outcome) ==
    IF outcome.kind \in {"error", "deadline exceeded"}
    THEN [w |-> w, resp |-> ZeroResponse, err |-> "failed to get response"]
    ELSE IF outcome.kind = "no content"
    THEN [w |-> w, resp |-> ZeroResponse, err |-> "no response content"]
    ELSE respond(w, message, save, parseAIResponse(outcome.text))

\* GeminiAIClient.SendMessage: the store, the Response and the error, "" for
\* nil.
SendMessage(w, chat, message, save, outcome) ==
    IF chat = NoChat
    THEN [w |-> w, resp |-> ZeroResponse, err |-> "chat session not started"]
    ELSE IF outcome.kind \in {"error", "deadline exceeded"}
    THEN [w |-> w, resp |-> ZeroResponse, err |-> "failed to get response"]
    ELSE IF outcome.kind = "no content"
    THEN [w |-> w, resp |-> ZeroResponse, err |-> "no response content"]
    ELSE respond(w, message, save, parseAIResponse(outcome.text))

RECURSIVE chatContext(_)
chatContext(chat) ==
    IF chat = << >>
    THEN << >>
    ELSE <<Word("[user-message]: ")>> \o Head(chat).Message.Content
         \o <<Word("[agent-response]: ")>> \o Head(chat).Response.Content
         \o chatContext(Tail(chat))

\* GeminiAIClient.StartSession, the message it sends.
startMessage(session) ==
    IF Len(session.Chat) > 0
    THEN <<Word("**Chat Context**: "), Newline>> \o chatContext(session.Chat)
    ELSE <<Word("Greetings")>>

\* GeminiAIClient.StartSession from the result s of GetSession on, in the
\* call numbered id on a client whose g.chat is chat; created is whether
\* Chats.Create succeeds.  The result is g.chat and what the call returns.
\* g.chat is assigned what Chats.Create returns, nil with an error, before
\* the first message is sent.
startChat(chat, id, s, created, outcome) ==
    IF s.err
    THEN [chat |-> chat,
          r |-> [w |-> s.w, resp |-> ZeroResponse, err |-> "failed to start a session"]]
    ELSE IF ~created
    THEN [chat |-> NoChat,
          r |-> [w |-> s.w, resp |-> ZeroResponse, err |-> "failed to start a chat"]]
    ELSE [chat |-> id,
          r |-> SendMessage(s.w, id, startMessage(s.ret[1]), FALSE, outcome)]

\* GeminiAIClient.StartSession
ClientStartSession(w, chat, id, created, outcome) ==
    startChat(chat, id, GetSession(w, "Session", ""), created, outcome)

\* ui.New: the program ends when the session cannot be started.
New(m, c) ==
    IF c.r.err # ""
    THEN [m EXCEPT !.program = "exited", !.chat = c.chat]
    ELSE [m EXCEPT !.program = "running", !.chat = c.chat,
                   !.messages = <<[Role |-> "ai-content",
                                   Content |-> c.r.resp.Content]>>]

\* Update, tea.WindowSizeMsg.
UpdateWindowSize(m) == [m EXCEPT !.ready = TRUE]

\* Update, the tab key.
UpdateTab(m) == [m EXCEPT !.previewMode = ~@]

\* Update, ctrl+c and q: tea.Quit.
UpdateQuit(m) == [m EXCEPT !.program = "quit"]

UpdateEnter_WhileLoading(m) ==
    IF m.textarea # << >>
    THEN LET userMsg == TrimSpace(m.textarea)
         IN [m |-> [m EXCEPT !.messages = Append(@, [Role |-> "user",
                                                      Content |-> userMsg]),
                             !.textarea = << >>,
                             !.loading = TRUE],
             cmd |-> <<userMsg>>]
    ELSE [m |-> m, cmd |-> << >>]

\* Update, the enter key: the Model and the message of the command started,
\* none when the submission is not accepted.
UpdateEnter(m) ==
    IF ~m.loading /\ m.textarea # << >>
    THEN LET userMsg == TrimSpace(m.textarea)
         IN [m |-> [m EXCEPT !.messages = Append(@, [Role |-> "user",
                                                      Content |-> userMsg]),
                             !.textarea = << >>,
                             !.loading = TRUE],
             cmd |-> <<userMsg>>]
    ELSE [m |-> m, cmd |-> << >>]

\* sendToAI, the message the command returns.
AIResponseMsg(r) ==
    [Content |-> r.resp.Content, Think |-> r.resp.Think, Summary |-> r.resp.Summary,
     Err |-> r.err]

\* The AIResponseMsg of a command that has not returned.
NoMsg == AIResponseMsg([resp |-> ZeroResponse, err |-> ""])

UpdateAIResponseMsg_StaysLoading(m, msg) ==
    IF msg.Err # ""
    THEN [m EXCEPT !.messages = Append(@, [Role |-> "ai-content",
                                            Content |-> msg.Content])]
    ELSE [m EXCEPT !.messages =
                       @ \o <<[Role |-> "assistant",
                               Content |-> <<Word("Summary: ")>> \o msg.Summary
                                      \o <<Word("Thought Process: ")>> \o msg.Think],
                              [Role |-> "ai-content", Content |-> msg.Content]>>]

\* Update, AIResponseMsg.
UpdateAIResponseMsg(m, msg) ==
    IF msg.Err # ""
    THEN [m EXCEPT !.loading = FALSE,
                   !.messages = Append(@, [Role |-> "ai-content",
                                            Content |-> msg.Content])]
    ELSE [m EXCEPT !.loading = FALSE,
                   !.messages =
                       @ \o <<[Role |-> "assistant",
                               Content |-> <<Word("Summary: ")>> \o msg.Summary
                                      \o <<Word("Thought Process: ")>> \o msg.Think],
                              [Role |-> "ai-content", Content |-> msg.Content]>>]

\* Update, ErrMsg.  No command of the program returns an ErrMsg.
UpdateErrMsg(m) == [m EXCEPT !.loading = FALSE]

\* The submissions a run of the client makes.
MaxRequests == 2

\* A reply the codec accepts.
GoodReply == <<Obj(<<Word("t")>>, <<Word("s")>>, <<Word("c")>>)>>

\* The texts of the provider's replies: accepted by the codec, not JSON, and
\* an object without a summary.
ProviderTexts ==
    {GoodReply,
     <<Word("plain")>>,
     <<Obj(<<Word("t")>>, << >>, <<Word("c")>>)>>}

\* What a call of the provider comes to.
ProviderOutcomes ==
    {[kind |-> "reply", text |-> t] : t \in ProviderTexts}
        \cup {[kind |-> k, text |-> << >>] :
                 k \in {"no content", "error", "deadline exceeded"}}

\* What the user has typed into the textarea.
TextareaValues == {<<Word("hello"), Blank>>}

workspaceVars == <<Context, contextFile, sessionFile, sessionsDir, rolesDir,
                   preferencesDir, damaged, logged, now, uuids, inited, archivedChat,
                   other>>

\* Update is called with a message that is not the result of a command.
Updated(key, m) ==
    /\ Model.program = "running"
    /\ Model' = m
    /\ last' = [op |-> "Update", args |-> <<key>>, err |-> FALSE, ret |-> << >>,
                fault |-> "none"]
    /\ UNCHANGED <<workspaceVars, requests>>

\* A call of the client with outcome r = [w, resp, err] returns.
ClientReturns(op, args, r) ==
    /\ Commits(op, args, [w |-> r.w, err |-> r.err # "", ret |-> <<r.resp, r.err>>],
               "none")
    /\ UNCHANGED other

\* ui.New has called StartSession, with outcome c.
NewReturns(args, c) ==
    /\ ClientReturns("New", args, c.r)
    /\ Model' = New(Model, c)
    /\ UNCHANGED requests

\* main: ui.New with the client of an initialized Workspace.
ClientNew ==
    /\ inited
    /\ Model.program = "none"
    /\ \E created \in BOOLEAN, outcome \in ProviderOutcomes :
           NewReturns(<<created, outcome>>,
                      ClientStartSession(Entry, Model.chat, 1, created, outcome))

\* The user types.
KeyRunes ==
    \E text \in TextareaValues :
        /\ text # Model.textarea
        /\ Updated("runes", [Model EXCEPT !.textarea = text])

WindowSize == Updated("resize", UpdateWindowSize(Model))

KeyTab == Updated("tab", UpdateTab(Model))

KeyQuit == Updated("q", UpdateQuit(Model))

\* The enter key.  The call in sendToAI does not name the save flag of
\* SendMessage: both values are taken.
KeyEnter ==
    /\ Model.program = "running"
    /\ Len(requests) < MaxRequests
    /\ LET u == UpdateEnter(Model)
       IN /\ Model' = u.m
          /\ last' = [op |-> "Update", args |-> <<"enter">>, err |-> FALSE,
                      ret |-> u.cmd, fault |-> "none"]
          /\ IF u.cmd = << >>
             THEN UNCHANGED requests
             ELSE \E save \in BOOLEAN :
                      requests' = Append(requests,
                                         [message |-> u.cmd[1], save |-> save,
                                          state |-> "running", results |-> 0,
                                          outcome |-> << >>, msg |-> NoMsg])
    /\ UNCHANGED workspaceVars

\* The command of request i has called SendMessage, with outcome r.
SendMessageReturns(i, outcome, r) ==
    /\ ClientReturns("SendMessage", <<requests[i].message, requests[i].save, outcome>>,
                     r)
    /\ requests' = [requests EXCEPT ![i].state = "returned",
                                    ![i].results = @ + 1,
                                    ![i].outcome = <<outcome>>,
                                    ![i].msg = AIResponseMsg(r)]
    /\ UNCHANGED Model

\* The command of a request runs SendMessage to its end and returns its
\* AIResponseMsg.
SendToAIReturns ==
    /\ Model.program = "running"
    /\ \E i \in DOMAIN requests, outcome \in ProviderOutcomes :
           /\ requests[i].state = "running"
           /\ SendMessageReturns(i, outcome,
                                 SendMessage(Entry, Model.chat, requests[i].message,
                                             requests[i].save, outcome))

\* The event loop passes the AIResponseMsg of a command to Update.
DeliverAIResponseMsg ==
    /\ Model.program = "running"
    /\ \E i \in DOMAIN requests :
           /\ requests[i].state = "returned"
           /\ Model' = UpdateAIResponseMsg(Model, requests[i].msg)
           /\ requests' = [requests EXCEPT ![i].state = "delivered"]
           /\ last' = [op |-> "Update", args |-> <<"AIResponseMsg", i>>,
                       err |-> FALSE, ret |-> << >>, fault |-> "none"]
    /\ UNCHANGED workspaceVars

\* The store is used while the client runs.
ClientEndSession ==
    /\ Model.program = "running"
    /\ ChatCall("EndSession", << >>, EndSession(Entry))

ClientDeleteRole ==
    /\ Model.program = "running"
    /\ ChatCall("DeleteRole", <<"documenter">>, DeleteRole(Entry, "documenter"))

\* The Workspace is initialized before the client is constructed.
ClientInit ==
    /\ Model.program = "none"
    /\ ChatInit

ClientNext ==
    \/ ClientInit
    \/ ClientNew
    \/ KeyRunes
    \/ WindowSize
    \/ KeyTab
    \/ KeyQuit
    \/ KeyEnter
    \/ SendToAIReturns
    \/ DeliverAIResponseMsg
    \/ ClientEndSession
    \/ ClientDeleteRole

ClientSpec == Init /\ [][ClientNext]_vars

\* The client with nothing else using the store.
ClientLiveNext ==
    \/ ClientInit
    \/ ClientNew
    \/ KeyRunes
    \/ WindowSize
    \/ KeyTab
    \/ KeyQuit
    \/ KeyEnter
    \/ SendToAIReturns
    \/ DeliverAIResponseMsg

\* The command of a request returns, the deadline of its context being 30
\* seconds, and the event loop passes every message it receives to Update.
ClientLiveSpec ==
    /\ Init
    /\ [][ClientLiveNext]_vars
    /\ WF_vars(SendToAIReturns)
    /\ WF_vars(DeliverAIResponseMsg)

----------------------------------------------------------------------------
(* The AIClient interface with any caller: StartSession and SendMessage of
   one GeminiAIClient are called in any order, whatever the calls before
   returned.  Here requests is the calls made, in order: the method, the
   error it returned and g.chat when it returned. *)

\* The calls a caller makes.
MaxCalls == 3

CallerMessages == {<<Word("hello")>>}

StartSessionReturns(args, c) ==
    /\ ClientReturns("ClientStartSession", args, c.r)
    /\ Model' = [Model EXCEPT !.chat = c.chat]
    /\ requests' = Append(requests, [op |-> "StartSession", err |-> c.r.err,
                                     chat |-> c.chat])

AIClientStartSession ==
    /\ inited
    /\ Len(requests) < MaxCalls
    /\ \E created \in BOOLEAN, outcome \in ProviderOutcomes :
           StartSessionReturns(<<created, outcome>>,
                               ClientStartSession(Entry, Model.chat, Len(requests) + 1,
                                                  created, outcome))

CallerSendMessageReturns(args, r) ==
    /\ ClientReturns("SendMessage", args, r)
    /\ requests' = Append(requests, [op |-> "SendMessage", err |-> r.err,
                                     chat |-> Model.chat])
    /\ UNCHANGED Model

AIClientSendMessage ==
    /\ inited
    /\ Len(requests) < MaxCalls
    /\ \E message \in CallerMessages, save \in BOOLEAN, outcome \in ProviderOutcomes :
           CallerSendMessageReturns(<<message, save, outcome>>,
                                    SendMessage(Entry, Model.chat, message, save,
                                                outcome))

AIClientNext ==
    \/ ChatInit
    \/ ChatEndSession
    \/ AIClientStartSession
    \/ AIClientSendMessage

AIClientSpec == Init /\ [][AIClientNext]_vars

----------------------------------------------------------------------------
(* Properties *)

Slot == IF sessionFile = << >> THEN "Empty" ELSE "Active"

ArchivedIndex == Context.Indexes.ArchivedSessions

Has(log, line) == \E i \in 1..Len(log) : log[i] = line

C3_SlotTransitions ==
    [][/\ (Slot = "Empty" /\ Slot' = "Active") =>
              last'.op \in {"StartSession", "ResumeArchivedSession", "GetSession"}
       /\ (Slot = "Active" /\ Slot' = "Empty") => last'.op = "EndSession"
       /\ (last'.op \in {"StartSession", "ResumeArchivedSession"} /\ Slot = "Active") =>
              Slot' = "Active"]_vars

C5_EndSessionWithoutSession ==
    [][(last'.op = "EndSession" /\ sessionFile = << >>) =>
           /\ ~last'.err
           /\ UNCHANGED <<Context, contextFile, sessionFile, sessionsDir, rolesDir,
                          preferencesDir>>]_vars

C5_Witness ==
    /\ last.op = "EndSession"
    /\ ~last.err
    /\ logged = << >>
    /\ sessionFile = << >>
    /\ sessionsDir # EmptyMap

\* C6: after a successful EndSession on the active session s the slot is Empty,
\* sessions/<s.ID>.json holds s exactly as session.json held it, the index has
\* s's summary, and context.json holds the Context with that entry.
C6_EndSessionArchives ==
    [][(last'.op = "EndSession" /\ sessionFile # << >> /\ ~last'.err) =>
           LET s == sessionFile[1]
           IN /\ sessionFile' = << >>
              /\ s.ID \in DOMAIN sessionsDir'
              /\ sessionsDir'[s.ID] = s
              /\ s.ID \in DOMAIN ArchivedIndex'
              /\ ArchivedIndex'[s.ID] = ArchivedSummary(s)
              /\ contextFile' = <<Context'>>
              /\ contextFile'[1].Indexes.ArchivedSessions[s.ID] = ArchivedSummary(s)]_vars

C6_Witness ==
    /\ last.op = "EndSession"
    /\ ~last.err
    /\ logged = <<"Archived session">>
    /\ \E id \in DOMAIN sessionsDir : sessionsDir[id].Chat # << >>

\* What ResumeArchivedSession(id) establishes for the resumed session.
ResumedIsActive(id) ==
    /\ sessionFile' # << >>
    /\ sessionFile'[1].ID = id
    /\ id \notin DOMAIN ArchivedIndex'
    /\ id \notin DOMAIN sessionsDir'
    /\ contextFile' = <<Context'>>
    /\ id \notin DOMAIN contextFile'[1].Indexes.ArchivedSessions

\* The session that was active before the step is archived under its id.
PreviousIsArchived ==
    /\ sessionFile[1].ID \in DOMAIN sessionsDir'
    /\ sessionsDir'[sessionFile[1].ID] = sessionFile[1]
    /\ sessionFile[1].ID \in DOMAIN ArchivedIndex'

C8_ResumeRestoresChat ==
    [][(last'.op = "ResumeArchivedSession" /\ ~last'.err) =>
           LET id == last'.args[1]
               archived == IF id \in DOMAIN archivedChat
                           THEN archivedChat[id]
                           ELSE sessionFile[1].Chat
           IN /\ sessionFile'[1].Chat = archived
              /\ last'.ret[1].Chat = archived]_vars

C8_Witness ==
    /\ last.op = "ResumeArchivedSession"
    /\ ~last.err
    /\ logged = <<"Resumed archived session">>
    /\ sessionFile[1].Chat # << >>

\* C9: GetSession with an active session changes nothing and, when it succeeds,
\* returns that session; without one it creates a session with the given label
\* and the role StartSession resolves from the given name; after every
\* successful call the slot is Active and the returned session is the active one.
C9_GetSession ==
    [][last'.op = "GetSession" =>
           LET label == last'.args[1]
               role == last'.args[2]
               resolved == IF role # "" /\ role \in DOMAIN Context.Indexes.RolesIndex
                           THEN role
                           ELSE Context.Settings.DefaultRole
           IN /\ sessionFile # << >> =>
                     /\ UNCHANGED <<Context, contextFile, sessionFile, sessionsDir,
                                    rolesDir, preferencesDir, now, uuids>>
                     /\ ~last'.err => MarshalSession(last'.ret[1]) = sessionFile[1]
              /\ (sessionFile = << >> /\ ~last'.err) =>
                     /\ sessionFile'[1].Label = label
                     /\ sessionFile'[1].Role = resolved
                     /\ sessionFile'[1].ID = uuids + 1
                     /\ sessionsDir' = sessionsDir
              /\ ~last'.err =>
                     /\ sessionFile' # << >>
                     /\ MarshalSession(last'.ret[1]) = sessionFile'[1]
                     /\ last'.ret[1].Role = rolesDir[sessionFile'[1].Role]]_vars

C9_Witness ==
    /\ last.op = "GetSession"
    /\ ~last.err
    /\ logged = << >>
    /\ sessionFile # << >>
    /\ last.ret[1].Chat # << >>
    /\ last.ret[1].Role = rolesDir[sessionFile[1].Role]

\* C10: a successful StartSession gives the new session the desired role when
\* that name is in the roles index and the default role otherwise; a desired
\* role that is not in the index is logged as a fallback, and a call that fails
\* with such a role fails for another reason: the active session could not be
\* archived or the default role cannot be loaded.
C10_RoleResolution ==
    [][last'.op = "StartSession" =>
           LET desired == last'.args[2]
               found == desired \in DOMAIN Context.Indexes.RolesIndex
               default == Context.Settings.DefaultRole
           IN /\ (~last'.err /\ desired # "" /\ found) =>
                     /\ sessionFile'[1].Role = desired
                     /\ last'.ret[1].Role = rolesDir[desired]
              /\ (~last'.err /\ (desired = "" \/ ~found)) =>
                     /\ sessionFile'[1].Role = default
                     /\ last'.ret[1].Role = rolesDir[default]
              /\ (~last'.err /\ desired # "" /\ ~found) => Has(logged', FallbackWarning)
              /\ (last'.err /\ desired # "" /\ ~found) =>
                     \/ sessionFile # << >> /\ sessionFile[1].Role \notin DOMAIN rolesDir
                     \/ default \notin DOMAIN rolesDir]_vars

C10_Witness ==
    /\ last.op = "StartSession"
    /\ ~last.err
    /\ last.args[2] = "reviewer"
    /\ Has(logged, FallbackWarning)
    /\ sessionFile[1].Role = "documenter"

\* C11: the session file and every archived file hold the role as a name only;
\* a successful load of the active session, and a successful resume, return the
\* session with the role that the roles directory holds under that name at the
\* time of the load, all other fields as persisted; when no role file of that
\* name exists the load fails and returns no session.
C11_LoadAttachesCurrentRole ==
    [][/\ sessionFile' # << >> => sessionFile'[1].Role \in RoleNames
       /\ \A f \in DOMAIN sessionsDir' : sessionsDir'[f].Role \in RoleNames
       /\ (last'.op = "GetActiveSession" /\ sessionFile # << >>) =>
              IF sessionFile[1].Role \in DOMAIN rolesDir
              THEN /\ ~last'.err
                   /\ last'.ret[1].Role = rolesDir[sessionFile[1].Role]
                   /\ MarshalSession(last'.ret[1]) = sessionFile[1]
              ELSE last'.err /\ last'.ret = << >>
       /\ (last'.op = "ResumeArchivedSession" /\ ~last'.err) =>
              /\ last'.ret[1].Role = rolesDir[sessionFile'[1].Role]
              /\ MarshalSession(last'.ret[1]) = sessionFile'[1]
       /\ (/\ last'.op = "ResumeArchivedSession"
           /\ last'.args[1] \in DOMAIN sessionsDir
           /\ sessionsDir[last'.args[1]].Role \notin DOMAIN rolesDir) =>
              last'.err /\ last'.ret = << >>
       /\ (/\ last'.op \in {"AddSource", "AddInteraction", "SwitchRole", "EndSession"}
           /\ sessionFile # << >>
           /\ sessionFile[1].Role \notin DOMAIN rolesDir) => last'.err]_vars

\* The active session was started with the default documenter role, the role
\* file was overwritten afterwards, and the load returns the overwritten role.
C11_Witness ==
    /\ last.op = "GetActiveSession"
    /\ ~last.err
    /\ sessionFile # << >>
    /\ sessionFile[1].Role = "documenter"
    /\ rolesDir["documenter"] # DocumenterRole
    /\ last.ret[1].Role = rolesDir["documenter"]

InList(list, x) == \E i \in 1..Len(list) : list[i] = x

NoDuplicates(list) == \A i, j \in 1..Len(list) : list[i] = list[j] => i = j

\* C12: AddSource of a path that does not exist returns an error and leaves the
\* session file as it was; of a path already in the list it succeeds and leaves
\* the session file as it was; of any other path it appends the path; so the
\* active session's source list never holds a path twice nor a path that did
\* not exist.
C12_AddSource ==
    [][/\ sessionFile' # << >> =>
              /\ NoDuplicates(sessionFile'[1].Sources)
              /\ \A i \in 1..Len(sessionFile'[1].Sources) :
                     sessionFile'[1].Sources[i] \in ExistingPaths
       /\ last'.op = "AddSource" =>
              LET path == last'.args[1]
                  loadable == /\ sessionFile # << >>
                              /\ sessionFile[1].Role \in DOMAIN rolesDir
              IN /\ path \notin ExistingPaths =>
                        last'.err /\ sessionFile' = sessionFile
                 /\ (loadable /\ path \in ExistingPaths
                              /\ InList(sessionFile[1].Sources, path)) =>
                        ~last'.err /\ sessionFile' = sessionFile
                 /\ (loadable /\ path \in ExistingPaths
                              /\ ~InList(sessionFile[1].Sources, path)) =>
                        /\ ~last'.err
                        /\ sessionFile'[1].Sources =
                               Append(sessionFile[1].Sources, path)]_vars

C12_Witness ==
    /\ last.op = "AddSource"
    /\ ~last.err
    /\ sessionFile # << >>
    /\ sessionFile[1].Sources = <<last.args[1]>>

\* C14: a SwitchRole to a role that has a file, made while the active session
\* can be loaded, succeeds and persists the session with that role's name and
\* the time of the call as last-updated time, everything else as it was; a
\* SwitchRole to a role that has no file returns an error and leaves the
\* session file, role and last-updated time included, as it was.
C14_SwitchRole ==
    [][last'.op = "SwitchRole" =>
           LET roleName == last'.args[1]
               loadable == /\ sessionFile # << >>
                           /\ sessionFile[1].Role \in DOMAIN rolesDir
           IN /\ (loadable /\ roleName \in DOMAIN rolesDir) =>
                     /\ ~last'.err
                     /\ now' > now
                     /\ sessionFile' =
                            <<[sessionFile[1] EXCEPT !.Role = roleName,
                                                     !.Metadata.LastUpdated = now']>>
              /\ roleName \notin DOMAIN rolesDir =>
                     last'.err /\ sessionFile' = sessionFile]_vars

\* A session started as documenter was switched to reviewer.
C14_Witness ==
    /\ last.op = "SwitchRole"
    /\ ~last.err
    /\ sessionFile # << >>
    /\ sessionFile[1].Role = "reviewer"
    /\ sessionFile[1].Metadata.LastUpdated > sessionFile[1].Metadata.CreatedAt

\* C15: DeletePreference of an id, and DeleteRole of a name, that has no file
\* succeeds and leaves the index in memory, context.json and every other file
\* as they were; so a delete that follows a delete of the same artifact
\* succeeds and changes nothing.
C15_DeleteAbsent ==
    [][/\ (last'.op = "DeletePreference"
               /\ last'.args[1] \notin DOMAIN preferencesDir) =>
              /\ ~last'.err
              /\ UNCHANGED <<Context, contextFile, sessionFile, sessionsDir,
                             rolesDir, preferencesDir>>
       /\ (last'.op = "DeleteRole" /\ last'.args[1] \notin DOMAIN rolesDir) =>
              /\ ~last'.err
              /\ UNCHANGED <<Context, contextFile, sessionFile, sessionsDir,
                             rolesDir, preferencesDir>>
       /\ (last.op \in {"DeletePreference", "DeleteRole"}
               /\ last'.op = last.op /\ last'.args = last.args) =>
              /\ ~last'.err
              /\ UNCHANGED <<Context, contextFile, sessionFile, sessionsDir,
                             rolesDir, preferencesDir>>]_vars

\* A preference id that has neither a file nor an index entry was deleted.
C15_Witness ==
    /\ last.op = "DeletePreference"
    /\ ~last.err
    /\ last.args[1] \notin DOMAIN preferencesDir
    /\ last.args[1] \notin DOMAIN Context.Indexes.PreferencesIndex
    /\ Has(logged, "Deleted preference")

StrictlyOrdered(chat) ==
    \A i, j \in 1..Len(chat) :
        i < j => chat[i].Message.Timestamp < chat[j].Message.Timestamp

ResponseNotBeforeMessage(chat) ==
    \A i \in 1..Len(chat) : chat[i].Response.Timestamp >= chat[i].Message.Timestamp

IndexIsOfValidFiles ==
    /\ DOMAIN Context.Indexes.ArchivedSessions = DOMAIN sessionsDir
    /\ \A f \in DOMAIN sessionsDir :
           Context.Indexes.ArchivedSessions[f] = ArchivedSummary(sessionsDir[f])
    /\ DOMAIN Context.Indexes.RolesIndex = DOMAIN rolesDir
    /\ \A f \in DOMAIN rolesDir :
           Context.Indexes.RolesIndex[f] = RoleSummary(rolesDir[f])
    /\ DOMAIN Context.Indexes.PreferencesIndex = DOMAIN preferencesDir
    /\ \A f \in DOMAIN preferencesDir :
           Context.Indexes.PreferencesIndex[f] = PreferenceSummary(preferencesDir[f])

\* C16: a RefreshIndexes that directly follows a successful RefreshIndexes, no
\* file having changed in between, changes neither the Context in memory nor
\* context.json.
C16_RefreshTwice ==
    [][(last.op = "RefreshIndexes" /\ ~last.err /\ last'.op = "RefreshIndexes") =>
           /\ ~last'.err
           /\ Context' = Context
           /\ contextFile' = contextFile]_vars

\* RefreshIndexes has built an index with entries from files put in by hand.
C16_Witness ==
    /\ last.op = "RefreshIndexes"
    /\ ~last.err
    /\ ForeignSession.ID \in DOMAIN Context.Indexes.ArchivedSessions
    /\ Context.Indexes.PreferencesIndex # EmptyMap
    /\ contextFile = <<Context>>

WarningLines ==
    {WarnReadSession, WarnParseSession, WarnReadRole, WarnParseRole,
     WarnReadPreference, WarnParsePreference}

DamagedFiles(d) ==
    Cardinality(DOMAIN d.sessions) + Cardinality(DOMAIN d.roles)
        + Cardinality(DOMAIN d.preferences)

\* C17: RefreshIndexes succeeds whatever files cannot be read or decoded; it
\* logs one warning for each such file, leaves the files as they are, and the
\* index it builds and saves holds exactly the summaries of the session, role
\* and preference files that decode.
C17_RebuildSkipsDamagedFiles ==
    [][last'.op = "RefreshIndexes" =>
           /\ ~last'.err
           /\ IndexIsOfValidFiles'
           /\ contextFile' = <<Context'>>
           /\ Cardinality({i \in 1..Len(logged') : logged'[i] \in WarningLines}) =
                  DamagedFiles(damaged)
           /\ UNCHANGED <<sessionsDir, rolesDir, preferencesDir, damaged>>]_vars

\* An index was rebuilt with an undecodable role file, an unreadable
\* preference file and a valid session file in the directories.
C17_Witness ==
    /\ last.op = "RefreshIndexes"
    /\ ~last.err
    /\ "undecodable" \in {damaged.roles[f] : f \in DOMAIN damaged.roles}
    /\ "unreadable" \in {damaged.preferences[f] : f \in DOMAIN damaged.preferences}
    /\ Has(logged, WarnParseRole)
    /\ Has(logged, WarnReadPreference)
    /\ DOMAIN Context.Indexes.ArchivedSessions = {ForeignSession.ID}
    /\ DOMAIN Context.Indexes.RolesIndex = DOMAIN rolesDir

C19_FailedOperationKeepsFiles ==
    [][last'.fault # "none" =>
           /\ last'.err
           /\ contextFile # << >> => contextFile' = contextFile
           /\ sessionFile # << >> => sessionFile' = sessionFile
           /\ \A f \in DOMAIN sessionsDir :
                  f \in DOMAIN sessionsDir' /\ sessionsDir'[f] = sessionsDir[f]
           /\ \A f \in DOMAIN rolesDir :
                  f \in DOMAIN rolesDir' /\ rolesDir'[f] = rolesDir[f]
           /\ \A f \in DOMAIN preferencesDir :
                  f \in DOMAIN preferencesDir'
                      /\ preferencesDir'[f] = preferencesDir[f]]_vars

ValidationErrors == {"ErrEmptyThink", "ErrEmptySummary", "ErrEmptyContent"}

\* C20: a parse that fails, with the input empty after trimming, with a text
\* that does not decode, or with an empty member, returns an error and the
\* Response whose Think and Summary are the two placeholders and whose Content
\* is the text as it was passed in; a parse that succeeds returns no error.
C20_FallbackKeepsRawInput ==
    last.op = "parseAIResponse" =>
        LET input == last.args[1]
            resp == last.ret[1]
            err == last.ret[2]
        IN /\ last.err <=> err # ""
           /\ TrimSpace(input) = << >> => err = "ErrEmptyInput"
           /\ err \in {"", "ErrEmptyInput", "ErrInvalidJSON"} \cup ValidationErrors
           /\ err # "" =>
                  /\ resp.Think = NoThinkBlock
                  /\ resp.Summary = NoSummaryBlock
                  /\ resp.Content = input
           /\ err = "" =>
                  /\ TrimSpace(resp.Think) # << >>
                  /\ TrimSpace(resp.Summary) # << >>
                  /\ TrimSpace(resp.Content) # << >>

\* A fenced object with a blank summary and a blank before the fence failed
\* validation: the fallback's content is the whole text, blank and fences
\* included.
C20_Witness ==
    /\ last.op = "parseAIResponse"
    /\ last.ret[2] = "ErrEmptySummary"
    /\ last.args[1][1] = Blank
    /\ last.args[1][2] = Fence
    /\ Len(last.args[1]) = MaxLen
    /\ last.ret[1].Content = last.args[1]

\* A member value that is not empty after trimming.
Filled(v) == v \notin {<< >>, <<Blank>>}

ResponseOf(o) == [Think |-> o.think, Summary |-> o.summary, Content |-> o.content]

ValidObjects ==
    {o \in Objects : Filled(o.think) /\ Filled(o.summary) /\ Filled(o.content)}

\* A valid object in one fenced block: with and without a language tag on
\* the opening fence line, with the closing fence and without it.
Wrapped(o) ==
    {<<Fence, Newline, o, Newline, Fence>>,
     <<Fence, Word("json"), Newline, o, Newline, Fence>>,
     <<Fence, Newline, o>>,
     <<Fence, Newline, o, Newline>>,
     <<Fence, Word("json"), Newline, o>>}

\* C22: the parse of a valid object wrapped in one fenced block, the opening
\* fence line with or without a tag, returns what the parse of the object
\* alone returns, also when the closing fence is missing; of two wrappers
\* only the outer one is stripped, so that the text does not decode.
C22_FenceStripped ==
    last.op = "parseAIResponse" =>
        \A o \in ValidObjects :
            /\ last.args[1] = <<o>> => last.ret = <<ResponseOf(o), "">>
            /\ last.args[1] \in Wrapped(o) => last.ret = <<ResponseOf(o), "">>
            /\ last.args[1] = <<Fence, Newline, Fence, Newline, o>> =>
                   last.ret[2] = "ErrInvalidJSON"

\* A valid object between an opening and a closing fence was parsed.
C22_Witness ==
    /\ last.op = "parseAIResponse"
    /\ ~last.err
    /\ Len(last.args[1]) = MaxLen
    /\ last.args[1][1] = Fence
    /\ last.args[1][Len(last.args[1])] = Fence
    /\ last.ret[1] = ResponseOf(last.args[1][3])

\* The validation error of an object: that of its first member, in the order
\* think, summary, content, that is empty, blank or lacking; "" when none is.
FirstEmptyMember(o) ==
    IF ~Filled(o.think) THEN "ErrEmptyThink"
    ELSE IF ~Filled(o.summary) THEN "ErrEmptySummary"
    ELSE IF ~Filled(o.content) THEN "ErrEmptyContent"
    ELSE ""

\* C23: the parse of a text that is one object, alone, with white space around
\* it or in a fenced block, returns the validation error of the first of
\* think, summary, content that is empty, blank or lacking, with the
\* fallback; when all three are filled it returns no error and the object's
\* members.
C23_FirstEmptyMember ==
    last.op = "parseAIResponse" =>
        \A o \in Objects :
            (\/ last.args[1] \in {<<o>>, <<Blank, o, Newline>>}
             \/ last.args[1] \in Wrapped(o)) =>
                /\ last.ret[2] = FirstEmptyMember(o)
                /\ last.ret[1] = IF FirstEmptyMember(o) = ""
                                 THEN ResponseOf(o)
                                 ELSE [Think |-> NoThinkBlock,
                                       Summary |-> NoSummaryBlock,
                                       Content |-> last.args[1]]

\* An object with a filled think, a blank summary and a lacking content was
\* parsed: the error is that of the summary.
C23_Witness ==
    /\ last.op = "parseAIResponse"
    /\ last.args[1] = <<Obj(<<Blank, Word("t")>>, <<Blank>>, << >>)>>
    /\ last.ret[2] = "ErrEmptySummary"

----------------------------------------------------------------------------
(* The chat client *)

\* The provider replied to request i with a text that parseAIResponse rejects.
RejectedReply(i) ==
    /\ requests[i].outcome # << >>
    /\ requests[i].outcome[1].kind = "reply"
    /\ parseAIResponse(requests[i].outcome[1].text).err # ""

\* The message Update appended last.
Shown(m) == m.messages[Len(m.messages)]

\* C24: when the provider's reply to a request is a text that fails parsing or
\* validation, the message Update appends for the request has that text as
\* its content.
C24_RawTextShown ==
    [][\A i \in DOMAIN requests :
           (/\ requests[i].state = "returned"
            /\ requests'[i].state = "delivered"
            /\ RejectedReply(i))
           => Shown(Model').Content = requests[i].outcome[1].text]_vars

\* The provider's answer is a text that parseAIResponse accepts.
AcceptedReply(outcome) ==
    outcome.kind = "reply" /\ parseAIResponse(outcome.text).err = ""

\* The chat log of session.json after the step is the one before it with
\* n entries more.
ChatGrowsBy(n) ==
    /\ sessionFile # << >>
    /\ sessionFile' # << >>
    /\ sessionFile'[1].ID = sessionFile[1].ID
    /\ Len(sessionFile'[1].Chat) = Len(sessionFile[1].Chat) + n
    /\ SubSeq(sessionFile'[1].Chat, 1, Len(sessionFile[1].Chat)) = sessionFile[1].Chat

ActiveSessionLoads(r) == ~r.err /\ r.ret # << >>

InFlight == {i \in DOMAIN requests : requests[i].state # "delivered"}

C27_EveryRequestAnswered ==
    /\ [](\A i \in DOMAIN requests :
              /\ requests[i].results = IF requests[i].state = "running" THEN 0 ELSE 1
              /\ Model.program \in {"running", "quit"})
    /\ [][\A i \in DOMAIN requests :
              (requests[i].state = "returned" /\ requests'[i].state = "delivered")
              => ~Model'.loading]_vars
    /\ \A i \in 1..MaxRequests :
           (i \in DOMAIN requests)
               ~> \/ Model.program = "quit"
                  \/ /\ i \in DOMAIN requests
                     /\ requests[i].state = "delivered"
                     /\ ~Model.loading

\* The call of the first request ended at the deadline of its context; its
\* message was given to Update, and a second request was accepted.
C27_Witness ==
    /\ Len(requests) = 2
    /\ requests[1].state = "delivered"
    /\ requests[1].outcome[1].kind = "deadline exceeded"
    /\ requests[1].msg.Err # ""
    /\ requests[2].state = "running"
    /\ Model.program = "running"

----------------------------------------------------------------------------
(* Saves and deletes of roles and preferences, step by step *)

RoleOps == {"saveRole", "DeleteRole"}
SaveOps == {"saveRole", "SavePreference"}
ArtifactOps == {"saveRole", "DeleteRole", "SavePreference", "DeletePreference"}

\* The file the call names: its name, and its directory, its damage and its
\* index map in the store w.
ArtifactName(call) ==
    CASE call.op = "saveRole" -> call.args[1].Name
      [] call.op = "SavePreference" -> call.args[1].ID
      [] OTHER -> call.args[1]

ArtifactDir(call, w) == IF call.op \in RoleOps THEN w.roles ELSE w.preferences

ArtifactDamage(call, w) ==
    IF call.op \in RoleOps THEN w.damaged.roles ELSE w.damaged.preferences

ArtifactIndex(call, w) ==
    IF call.op \in RoleOps
    THEN w.Context.Indexes.RolesIndex
    ELSE w.Context.Indexes.PreferencesIndex

\* Step 1 of the call has been done on the store w: the file holds the value
\* saved, or is gone.
FileStepDone(call, w) ==
    LET name == ArtifactName(call)
    IN IF call.op \in SaveOps
       THEN name \in DOMAIN ArtifactDir(call, w)
                /\ ArtifactDir(call, w)[name] = call.args[1]
       ELSE name \notin DOMAIN ArtifactDir(call, w)
                /\ name \notin DOMAIN ArtifactDamage(call, w)

\* Step 2: the index map in memory has the entry of the value saved, or has
\* no entry of the name.
IndexStepDone(call, w) ==
    LET name == ArtifactName(call)
    IN IF call.op \in SaveOps
       THEN name \in DOMAIN ArtifactIndex(call, w)
                /\ ArtifactIndex(call, w)[name] =
                       IF call.op = "saveRole"
                       THEN RoleSummary(call.args[1])
                       ELSE PreferenceSummary(call.args[1])
       ELSE name \notin DOMAIN ArtifactIndex(call, w)

\* C28: a save or delete of a role or preference changes the file, then the
\* index map, then context.json, then the log.  A call that fails in its
\* first step leaves the Context, context.json and the log as they were (and
\* a failed removal the directory too); one that fails in saveContext has
\* changed the file and the index map and nothing after them; one that fails
\* in logAction has written context.json as well; each of them returns an
\* error and appends no log line, and a call without a failure has done all
\* four steps.
C28_StepsInOrder ==
    [][last'.op \in ArtifactOps =>
           /\ last'.err <=> last'.fault # "none"
           /\ (last'.fault = "none") <=> (Len(logged') = 1)
           /\ logged' # << >> => contextFile' = <<Context'>>
           /\ contextFile' # contextFile
                  => /\ last'.fault \in {"saveContext", "logAction", "none"}
                     /\ IndexStepDone(last', Store')
           /\ Context' # Context => FileStepDone(last', Store')
           /\ last'.fault \in {"writeJSON", "Remove"}
                  => /\ Context' = Context
                     /\ contextFile' = contextFile
           /\ last'.fault = "Remove"
                  => rolesDir' = rolesDir /\ preferencesDir' = preferencesDir
           /\ last'.fault \in {"saveContext", "logAction", "none"}
                  => /\ FileStepDone(last', Store')
                     /\ IndexStepDone(last', Store')
           /\ last'.fault = "saveContext" => contextFile' \in {contextFile, << >>}
           /\ last'.fault \in {"logAction", "none"} => contextFile' = <<Context'>>]_vars

\* A save of a role failed in writeJSON after the file was truncated: the
\* file is there, undecodable, and the index map has no entry of the role.
C28_Witness ==
    /\ last.op = "saveRole"
    /\ last.fault = "writeJSON"
    /\ last.err
    /\ last.args[1].Name = "reviewer"
    /\ "reviewer" \in DOMAIN damaged.roles
    /\ "reviewer" \notin DOMAIN Context.Indexes.RolesIndex
    /\ contextFile = <<Context>>
    /\ logged = << >>

----------------------------------------------------------------------------
(* ResumeArchivedSession with the archive file left behind *)

\* C29: a ResumeArchivedSession(id) in which the removal of the archive file
\* fails returns the session without an error: session.json holds the
\* session id with its role, the archived-session index has no entry of it,
\* in memory and in context.json, the archive file is still there, and the
\* log has the warning before the line of the resumption.
C29_ResumeKeepsArchive ==
    (last.op = "ResumeArchivedSession" /\ last.fault = "Remove") =>
        LET id == last.args[1]
        IN /\ ~last.err
           /\ last.ret # << >>
           /\ last.ret[1].ID = id
           /\ sessionFile = <<MarshalSession(last.ret[1])>>
           /\ last.ret[1].Role = rolesDir[sessionFile[1].Role]
           /\ id \notin DOMAIN ArchivedIndex
           /\ contextFile = <<Context>>
           /\ id \in DOMAIN sessionsDir
           /\ sessionsDir[id] = sessionFile[1]
           /\ Has(logged, WarnRemoveArchive)
           /\ logged[Len(logged)] = "Resumed archived session"

\* The removal failed in a resume made while another session was active:
\* that session is archived, and the resumed one is active with its archive
\* file left behind.
C29_Witness ==
    /\ last.op = "ResumeArchivedSession"
    /\ last.fault = "Remove"
    /\ ~last.err
    /\ sessionFile # << >>
    /\ sessionFile[1].ID = last.args[1]
    /\ last.args[1] \in DOMAIN sessionsDir
    /\ logged = <<"Archived session", WarnRemoveArchive, "Resumed archived session">>
    /\ \E id \in DOMAIN ArchivedIndex : id # last.args[1]

----------------------------------------------------------------------------
(* Two processes on one directory *)

\* The index maps of context.json.
PersistedIndexes == contextFile[1].Indexes

\* An artifact file is on disk and the index of context.json has no entry
\* of it.
PersistedIndexOmitsFile ==
    \/ \E id \in DOMAIN preferencesDir : id \notin DOMAIN PersistedIndexes.PreferencesIndex
    \/ \E name \in DOMAIN rolesDir : name \notin DOMAIN PersistedIndexes.RolesIndex
    \/ \E id \in DOMAIN sessionsDir : id \notin DOMAIN PersistedIndexes.ArchivedSessions

\* session.json holds a session the second process started, in place of one
\* the first process started and has not ended.
SessionFileOverwritten ==
    /\ sessionFile # << >>
    /\ sessionFile[1].ID \in other.started
    /\ \E id \in DOMAIN sessionsDir :
           /\ id \notin other.started
           /\ id \notin DOMAIN Context.Indexes.ArchivedSessions

\* C30: nothing makes a call of one process wait for or fail because of the
\* other: every call returns success.  A call changes the Context of its own
\* process only, and context.json, when a call writes it, is the Context of
\* the process that made the call, whole, so that context.json is always
\* the Context of one of the two processes and never has what only the
\* other one knows.
C30_LastWriterWins ==
    /\ [](last.op # "NewWorkspace" => ~last.err)
    /\ [](contextFile # << >> => contextFile \in {<<Context>>, <<other.Context>>})
    /\ [][/\ other'.called
             => /\ Context' = Context
                /\ contextFile' # contextFile => contextFile' = <<other'.Context>>
          /\ ~other'.called
             => /\ other'.Context = other.Context
                /\ contextFile' # contextFile => contextFile' = <<Context'>>]_vars

\* Both processes have called Init, every call has returned success, a file
\* saved by one of them is on disk without an entry in the index of
\* context.json, and session.json, written by the first process, has been
\* overwritten by the second.
C30_Witness ==
    /\ inited
    /\ other.inited
    /\ contextFile # << >>
    /\ "p1" \in DOMAIN preferencesDir
    /\ "p1" \notin DOMAIN PersistedIndexes.PreferencesIndex
    /\ PersistedIndexOmitsFile
    /\ SessionFileOverwritten

----------------------------------------------------------------------------
(* The sessions of the store, active and archived *)

\* The sessions on disk as serialized, by the id they carry: the one of
\* session.json and those of sessions/.
StoredSessions ==
    {sessionFile[i] : i \in 1..Len(sessionFile)}
        \cup {sessionsDir[f] : f \in DOMAIN sessionsDir}

StoredIDs == {s.ID : s \in StoredSessions}

Stored(id) == CHOOSE s \in StoredSessions : s.ID = id

MutatingOps == {"AddSource", "AddInteraction", "SwitchRole"}

\* C31: the session a successful StartSession returns has an id no stored
\* session had, no sources, an empty chat log, a last-updated time equal to
\* its creation time and an archive-eligibility time seven days after it, and
\* it is what session.json holds.  From then on, through every operation, a
\* stored session stays stored under its id (an archived file is named by
\* the id it carries, AddSource, AddInteraction and SwitchRole keep the id
\* of the active session, ResumeArchivedSession makes active the id it was
\* asked for), with the creation time and the archive-eligibility time it
\* had and a last-updated time that is not earlier.
C31_SessionMetadata ==
    [][/\ (last'.op = "StartSession" /\ ~last'.err)
          => LET s == last'.ret[1]
             IN /\ s.ID \notin StoredIDs
                /\ s.Sources = << >>
                /\ s.Chat = << >>
                /\ s.Metadata.LastUpdated = s.Metadata.CreatedAt
                /\ s.Metadata.ArchiveAfter = s.Metadata.CreatedAt + SevenDays
                /\ sessionFile' = <<MarshalSession(s)>>
       /\ StoredIDs \subseteq StoredIDs'
       /\ \A f \in DOMAIN sessionsDir' : sessionsDir'[f].ID = f
       /\ (last'.op \in MutatingOps /\ ~last'.err)
          => /\ sessionFile # << >>
             /\ sessionFile' # << >>
             /\ sessionFile'[1].ID = sessionFile[1].ID
       /\ (last'.op = "ResumeArchivedSession" /\ ~last'.err)
          => sessionFile'[1].ID = last'.args[1]
       /\ \A id \in StoredIDs :
              LET before == Stored(id).Metadata
                  after == Stored(id)'.Metadata
              IN /\ after.CreatedAt = before.CreatedAt
                 /\ after.ArchiveAfter = before.ArchiveAfter
                 /\ after.LastUpdated >= before.LastUpdated]_vars

\* A session was started, changed by a later operation, archived and resumed:
\* it is active with a last-updated time later than its creation time.
C31_Witness ==
    /\ last.op = "ResumeArchivedSession"
    /\ ~last.err
    /\ sessionFile # << >>
    /\ sessionFile[1].Metadata.LastUpdated > sessionFile[1].Metadata.CreatedAt
    /\ sessionFile[1].Metadata.ArchiveAfter =
           sessionFile[1].Metadata.CreatedAt + SevenDays

----------------------------------------------------------------------------
(* Init over the runs of the program *)

DefaultSettings ==
    [DefaultLanguage |-> "en", DefaultRole |-> "documenter",
     SystemPrompt |-> DefaultSystemPrompt]

\* C32: an Init that returns success while context.json is absent creates
\* the Context, with a workspace identifier not handed out before, the
\* default settings and the project of the call.  An Init that returns
\* success while context.json is present leaves the Workspace with the
\* workspace identifier, the settings and the project of that file, whatever
\* the project of the call, and context.json keeps them.  After either, the
\* file of the role 'documenter' is in roles/.
C32_InitLoadsExisting ==
    [][(last'.op = "Init" /\ ~last'.err)
       => /\ IF contextFile = << >>
             THEN /\ Context'.Workspace = uuids + 1
                  /\ Context'.Settings = DefaultSettings
                  /\ Context'.Project = last'.args[1]
             ELSE /\ Context'.Workspace = contextFile[1].Workspace
                  /\ Context'.Settings = contextFile[1].Settings
                  /\ Context'.Project = contextFile[1].Project
          /\ contextFile' # << >>
          /\ contextFile'[1].Workspace = Context'.Workspace
          /\ contextFile'[1].Settings = Context'.Settings
          /\ contextFile'[1].Project = Context'.Project
          /\ "documenter" \in (DOMAIN rolesDir') \cup (DOMAIN damaged'.roles)]_vars

\* A later run has called Init with another project than the one the
\* workspace was created with: the project of the first run is kept, and the
\* role 'documenter', deleted in between, was saved again by this Init.
C32_Witness ==
    /\ last.op = "Init"
    /\ ~last.err
    /\ last.args[1] = "fork"
    /\ Context.Project = "nani"
    /\ Context.Workspace = 1
    /\ uuids > 1
    /\ Has(logged, "Saved role")
    /\ "documenter" \in DOMAIN rolesDir

----------------------------------------------------------------------------
(* The order of the calls of the AIClient interface *)

\* The store as the files and the counters: what a call that does not touch
\* the store leaves as it was.
StoreUntouched ==
    /\ UNCHANGED <<Context, contextFile, sessionFile, sessionsDir, rolesDir,
                   preferencesDir, damaged, now, uuids>>
    /\ logged' = << >>

StartsReturned(ok) ==
    {i \in DOMAIN requests :
        /\ requests[i].op = "StartSession"
        /\ requests[i].err \in ok}

Latest(calls) == IF calls = {} THEN NoChat ELSE CHOOSE i \in calls : \A j \in calls : j <= i

\* The errors of a StartSession that has created a chat: none, and those of
\* its first message.
StartErrors == {"failed to get response", "no response content", "failed to parse"}

\* The chat of the most recent StartSession that has returned success.
EstablishedChat == Latest(StartsReturned({""}))

\* g.chat as the calls so far leave it: the chat of the most recent
\* StartSession that came to Chats.Create, none when Chats.Create failed.
CreatedChat ==
    LET i == Latest(StartsReturned({"", "failed to start a chat"} \cup StartErrors))
    IN IF i # NoChat /\ requests[i].err = "failed to start a chat" THEN NoChat ELSE i

\* C33 as stated: a SendMessage made while no StartSession has returned
\* success returns the error of a chat not started and leaves the store as it
\* was, and a SendMessage made after a StartSession has returned success is
\* sent on the chat of the most recent one that has.
C33_SendNeedsSuccessfulStart ==
    [][last'.op = "SendMessage"
       => IF EstablishedChat = NoChat
          THEN /\ last'.ret = <<ZeroResponse, "chat session not started">>
               /\ StoreUntouched
          ELSE /\ last'.ret[2] # "chat session not started"
               /\ Model.chat = EstablishedChat]_vars

\* C33, amended: a SendMessage on a client whose g.chat is nil (no
\* StartSession has come to Chats.Create, or Chats.Create failed in the most
\* recent one that has) returns the error of a chat not started, with the
\* zero Response, and leaves the store as it was; every other SendMessage is
\* sent, on the chat created by the most recent StartSession that came to
\* Chats.Create, whether or not that StartSession returned success.  A
\* StartSession that returns success leaves the chat it created in g.chat.
C33_SendNeedsCreatedChat ==
    [][/\ last'.op = "SendMessage"
          => /\ Model.chat = CreatedChat
             /\ IF Model.chat = NoChat
                THEN /\ last'.ret = <<ZeroResponse, "chat session not started">>
                     /\ StoreUntouched
                ELSE last'.ret[2] # "chat session not started"
       /\ (last'.op = "ClientStartSession" /\ ~last'.err)
          => Model'.chat = Len(requests')]_vars

\* A StartSession has failed in its first message, after Chats.Create, and
\* the SendMessage after it was sent on the chat of that StartSession, has
\* returned a Response and has added its interaction to the active session.
C33_Witness ==
    /\ last.op = "SendMessage"
    /\ ~last.err
    /\ Len(requests) = 2
    /\ requests[1].op = "StartSession"
    /\ requests[1].err \in StartErrors
    /\ requests[2].chat = 1
    /\ Has(logged, "Added interaction")

----------------------------------------------------------------------------
(* No session is lost *)

\* The session of the given id is held by session.json, and by no file of
\* sessions/.
HeldActive(file, dir, id) ==
    /\ file # << >>
    /\ file[1].ID = id
    /\ \A f \in DOMAIN dir : dir[f].ID # id

\* The session of the given id is held by the file of sessions/ named by the
\* id, by no other file of sessions/, and not by session.json.
HeldArchived(file, dir, id) ==
    /\ \A i \in 1..Len(file) : file[i].ID # id
    /\ {f \in DOMAIN dir : dir[f].ID = id} = {id}

\* The call just made has changed the sources or the chat log of the active
\* session, whose id is given.
Mutated(id) ==
    /\ last'.op \in {"AddSource", "AddInteraction"}
    /\ ~last'.err
    /\ sessionFile # << >>
    /\ sessionFile[1].ID = id

\* C34: through every call of the store, one that returns an error
\* included, the session a successful StartSession returns is the one of
\* session.json, and every session that is stored stays stored, in exactly
\* one place, session.json or the file of sessions/ named by its id, with
\* the sources and the chat log it had, unless the call is the AddSource or
\* AddInteraction that has added to them.
C34_NoSessionLost ==
    [][/\ (last'.op = "StartSession" /\ ~last'.err)
          => HeldActive(sessionFile', sessionsDir', last'.ret[1].ID)
       /\ \A id \in StoredIDs :
              /\ \/ HeldActive(sessionFile', sessionsDir', id)
                 \/ HeldArchived(sessionFile', sessionsDir', id)
              /\ IF Mutated(id)
                 THEN /\ HeldActive(sessionFile', sessionsDir', id)
                      /\ last'.op = "AddSource"
                         => /\ Stored(id)'.Chat = Stored(id).Chat
                            /\ \/ Stored(id)'.Sources = Stored(id).Sources
                               \/ Stored(id)'.Sources =
                                      Append(Stored(id).Sources, last'.args[1])
                      /\ last'.op = "AddInteraction"
                         => /\ Stored(id)'.Sources = Stored(id).Sources
                            /\ Len(Stored(id)'.Chat) = Len(Stored(id).Chat) + 1
                            /\ SubSeq(Stored(id)'.Chat, 1, Len(Stored(id).Chat))
                                   = Stored(id).Chat
                 ELSE /\ Stored(id)'.Sources = Stored(id).Sources
                      /\ Stored(id)'.Chat = Stored(id).Chat]_vars

\* A session with an interaction was archived by the StartSession of a
\* second one: both are stored, the first in sessions/ with its chat log,
\* the second in session.json.
C34_Witness ==
    /\ last.op = "StartSession"
    /\ ~last.err
    /\ sessionFile # << >>
    /\ \E id \in DOMAIN sessionsDir :
           /\ id # sessionFile[1].ID
           /\ sessionsDir[id].ID = id
           /\ sessionsDir[id].Chat # << >>

----------------------------------------------------------------------------
(* The steps of a move between session.json and sessions/ *)

\* C35: whatever step EndSession or ResumeArchivedSession stops at, every
\* session that was stored before the call is stored after it, as it was, in
\* session.json or in sessions/.  When session.json has lost the session it
\* held, the file of sessions/ named by its id holds it; when a file of
\* sessions/ is gone or can no longer be decoded, session.json holds its
\* session.
C35_MovedSessionNeverAbsent ==
    [][/\ \A s \in StoredSessions : s \in StoredSessions'
       /\ (sessionFile # << >> /\ sessionFile' # sessionFile)
          => /\ sessionFile[1].ID \in DOMAIN sessionsDir'
             /\ sessionsDir'[sessionFile[1].ID] = sessionFile[1]
       /\ \A id \in (DOMAIN sessionsDir) \ (DOMAIN sessionsDir') :
              sessionFile' = <<sessionsDir[id]>>]_vars

\* ResumeArchivedSession has stopped after it wrote session.json and before
\* it removed the file of sessions/: both hold the session.  The session
\* that was active before is in sessions/.
C35_Witness ==
    /\ last.op = "ResumeArchivedSession"
    /\ last.err
    /\ last.fault = "saveContext"
    /\ sessionFile # << >>
    /\ sessionFile[1].ID = last.args[1]
    /\ last.args[1] \in DOMAIN sessionsDir
    /\ sessionsDir[last.args[1]] = sessionFile[1]
    /\ \E id \in DOMAIN sessionsDir : id # last.args[1]

----------------------------------------------------------------------------
(* The Context in memory and in context.json *)

----------------------------------------------------------------------------
(* A session whose role file is gone *)

SessionOps ==
    {"GetActiveSession", "GetSession", "StartSession", "EndSession",
     "ResumeArchivedSession", "AddSource", "AddInteraction", "SwitchRole"}

\* session.json names a role that has no file in roles/.
Dangling == sessionFile # << >> /\ sessionFile[1].Role \notin DOMAIN rolesDir

\* C37: DeleteRole of the role named by session.json returns success and
\* removes the file of the role.  A session operation called while
\* session.json names a role without a file returns an error and leaves
\* session.json, sessions/ and roles/ as they were, so that session.json
\* still names a role without a file after it.
C37_DanglingRoleBlocksSessions ==
    [][/\ (last'.op = "DeleteRole" /\ sessionFile # << >>
              /\ last'.args[1] = sessionFile[1].Role)
          => /\ ~last'.err
             /\ last'.args[1] \notin DOMAIN rolesDir'
             /\ sessionFile' = sessionFile
       /\ (Dangling /\ last'.op \in SessionOps)
          => /\ last'.err
             /\ last'.ret = << >>
             /\ sessionFile' = sessionFile
             /\ sessionsDir' = sessionsDir
             /\ rolesDir' = rolesDir
             /\ Dangling']_vars

\* The role of the active session was deleted, and SwitchRole to a role
\* that has a file has returned an error: session.json still names the
\* deleted role.
C37_Witness ==
    /\ Dangling
    /\ last.op = "SwitchRole"
    /\ last.err
    /\ last.args[1] \in DOMAIN rolesDir

----------------------------------------------------------------------------
(* What AddSource, AddInteraction and SwitchRole leave alone *)

\* C38: a call of AddSource, AddInteraction or SwitchRole, whatever it
\* returns, leaves the Context in memory and context.json, with the three
\* indexes, the files of sessions/, of roles/ and of preferences/ as they
\* were, and session.json present if and only if it was present; when the
\* call returns an error, session.json is as it was.
C38_OnlyActiveSessionChanges ==
    [][last'.op \in MutatingOps
       => /\ Context' = Context
          /\ contextFile' = contextFile
          /\ sessionsDir' = sessionsDir
          /\ rolesDir' = rolesDir
          /\ preferencesDir' = preferencesDir
          /\ damaged' = damaged
          /\ Slot' = Slot
          /\ last'.err => sessionFile' = sessionFile]_vars

\* A session is archived, a second role and a preference are saved, and
\* SwitchRole has changed the role of the active session.
C38_Witness ==
    /\ last.op = "SwitchRole"
    /\ ~last.err
    /\ Slot = "Active"
    /\ sessionFile[1].Role = "reviewer"
    /\ sessionsDir # EmptyMap
    /\ ArchivedIndex # EmptyMap
    /\ preferencesDir # EmptyMap
    /\ Cardinality(DOMAIN rolesDir) = 2

----------------------------------------------------------------------------
(* The operations on the active session while there is none *)

\* The call just made has left the store as it was and has logged nothing.
NothingChanged ==
    /\ StoreUntouched
    /\ archivedChat' = archivedChat

====
